---- MODULE Spec2Model ----
(***************************************************************************)
(* State-machine model of the data-link protocol engine of src/link.py:    *)
(* the LinkService connection manager (sockets, lifecycle flags, timer),   *)
(* the receive loop, the opcode dispatcher and the handlers they call.     *)
(*                                                                         *)
(* The service is single threaded: a handler (an operator call, or one     *)
(* tick of loop() run by bpy.app.timers) runs to its end before the next   *)
(* one starts.  A tick is modelled in steps (pc) so that the loops of      *)
(* accept() and recv() are visible; everything else is one action per      *)
(* call.  Python methods are operators on the record W of all fields; an   *)
(* action commits the record its handler returns.                          *)
(***************************************************************************)
EXTENDS Integers, Sequences, FiniteSets, TLC

VARIABLES
    \* LinkService fields
    timer, server_sock, client_sock, is_listening, is_connected, is_connecting,
    keepalive_timer, is_data,
    remote_app, remote_version, remote_path, remote_exe,
    \* bpy.app.timers: whether loop() is registered
    registered,
    \* the network, as seen from this process
    os_open, inq, peer_closed, pending,
    \* position in the running tick, `sock` of accept() and the locals of recv()
    pc, sock, header, chunk, op_code, count,
    \* what the last select() or read of recv() did
    io,
    \* observation of the running handler: frames written, lost_connection
    \* emissions, the exception that left it, the queue at the start of recv()
    outbox, lost_emits, exc, inq0,
    \* keepalive resets made by parse() in the running handler
    resets,
    \* the module switch USE_KEEPALIVE
    use_keepalive,
    \* delta_time of the running loop()
    delta_time,
    \* the operation that is running, or has just returned
    handler,
    \* LINK_DATA: the registry and the sequence session
    actors,
    sequence_actors,
    sequence_current_frame,
    sequence_start_frame,
    \* LinkActor.cache of each character of the scene
    cache,
    \* LinkService: the sequence flag and the callbacks of the sequence signal
    is_sequence,
    callbacks,
    \* bpy.context.scene: the frame range and the current frame
    frame_start,
    frame_end,
    frame_current,
    \* the sequence messages written since the last SEQUENCE that opened a session
    seq_log,
    \* the template of each actor (LinkActor.bones, expressions, visemes, morphs)
    template,
    \* the curves of the actions of each character (bpy.data.actions)
    action,
    \* the frames of the SEQUENCE_FRAME messages handled since the session was opened
    received,
    \* what the last call of loop() returned to bpy.app.timers
    delay,
    \* what the last call of try_start_client returned
    ret,
    \* the peer sockets stop_client() has released in the running handler
    released,
    \* LINK_DATA.actors as objects: the character cache and the link id of each
    registry,
    \* the link id of the cache of each character of the scene
    scene,
    \* a string on its way through pack_string and unpack_string
    codec,
    \* a pose record on its way through the encoder and the decoder
    pose,
    \* emissions of the connected signal in the running handler
    connected_emits

vars == << timer, server_sock, client_sock, is_listening, is_connected,
           is_connecting, keepalive_timer, is_data, remote_app, remote_version,
           remote_path, remote_exe, registered, os_open, inq,
           peer_closed, pending, pc, sock, header, chunk, op_code, count, io,
           outbox, lost_emits, exc, inq0,
           resets,
           use_keepalive,
           delta_time,
           handler,
           actors,
           sequence_actors,
           sequence_current_frame,
           sequence_start_frame,
           cache,
           is_sequence,
           callbacks,
           frame_start,
           frame_end,
           frame_current,
           seq_log,
           template,
           action,
           received,
           delay,
           ret,
           released,
           registry,
           scene,
           codec,
           pose,
           connected_emits >>

-----------------------------------------------------------------------------
\* Module constants of link.py

HANDSHAKE_TIMEOUT_S == 60
KEEPALIVE_TIMEOUT_S == 300
MAX_RECEIVE == 24
\* 1/30 s, in thirtieths of a second
TIMER_INTERVAL == 1
SERVER_ONLY == FALSE
CLIENT_ONLY == TRUE
USE_KEEPALIVE == FALSE

\* class OpCodes
NONE == 0
HELLO == 1
PING == 2
STOP == 10
DISCONNECT == 11
NOTIFY == 50
MORPH == 90
MORPH_UPDATE == 91
CHARACTER == 100
CHARACTER_UPDATE == 101
PROP == 102
PROP_UPDATE == 103
RIGIFY == 110
TEMPLATE == 200
POSE == 210
POSE_FRAME == 211
SEQUENCE == 220
SEQUENCE_FRAME == 221
SEQUENCE_END == 222
LIGHTS == 230
CAMERA_SYNC == 231

\* The opcodes parse() has a branch for.
HandledOps == { HELLO, PING, STOP, DISCONNECT, NOTIFY, TEMPLATE, POSE,
                POSE_FRAME, MORPH, MORPH_UPDATE, CHARACTER, PROP,
                CHARACTER_UPDATE, RIGIFY, SEQUENCE, SEQUENCE_FRAME,
                SEQUENCE_END, LIGHTS, CAMERA_SYNC }

-----------------------------------------------------------------------------
\* Bounds of the model

\* peer sockets that can exist at once (held, or dropped and not yet reclaimed)
MaxSocks == 2
\* items the peer may have queued on the peer socket (specification Spec)
MaxQueue == 2
\* inbound connections waiting in the listen backlog
MaxPending == 1
\* lost_connection emissions counted in one handler (the count saturates)
MaxLost == 3
\* messages the peer may queue beyond MAX_RECEIVE (specification SpecCap)
MaxExtra == 2
\* characters of the scene that have a link id
MaxActors == 1
\* the last frame number of a frame range; the first is 1
MaxFrame == 2
\* distinct sample values a pose frame may carry
MaxSample == 2
\* callbacks connected to the sequence signal at once
MaxCallbacks == 2
\* characters of the scene whose registry entries are told apart
MaxChars == 3
\* characters of a string that is packed
MaxStrLen == 3
\* bones, expressions and visemes of a template whose pose is encoded
MaxChannels == 2
\* inbound connections that arrive between two ticks (specification SpecAccept)
MaxBurst == 2
\* entries of the log of sequence messages written (the log saturates)
MaxLog == MaxFrame + 4

-----------------------------------------------------------------------------
\* Values

\* Python None for a socket, a string and op_code
NoSock == 0
Null == "None"
OpNone == -1
NoExc == "none"
\* no delay returned: loop() has not returned, or returned None or raised
NoDelay == -1

PeerSocks == 1..MaxSocks
\* Socket ids are names within one handler: the socket held when a handler
\* starts is the first, the sockets the handler creates are the next ones.
FirstSock == CHOOSE s \in PeerSocks : \A t \in PeerSocks : s <= t
ServerSock == MaxSocks + 1

\* Payload bytes.  A JSON document is the set of its <<key, value>> pairs.
NoData == [fmt |-> "none", doc |-> {}]
Garbage == [fmt |-> "garbage", doc |-> {}]
UnboundChunk == [fmt |-> "unbound", doc |-> {}]
ZeroChunk == [fmt |-> "zero", doc |-> {}]

encode_from_json(json_data) == [fmt |-> "json", doc |-> json_data]

\* len(binary_data): the empty payload has no bytes, any other has some, and
\* a longer document has more.
ByteLen(data) ==
    CASE data.fmt \in {"none", "zero", "unbound"} -> 0
      [] data.fmt = "garbage" -> 1
      [] data.fmt \in {"json", "pose"} -> 2 + Cardinality(data.doc)

HasKey(doc, k) == \E p \in doc : p[1] = k
Get(doc, k) == (CHOOSE p \in doc : p[1] = k)[2]

\* The HELLO document a peer (Character Creator) sends and the one send_hello
\* builds, which has no "Exe".
HelloCC == { <<"Application", "Character Creator">>, <<"Version", "4.4">>,
             <<"Path", "C:/cc/link">>, <<"Exe", "C:/cc/cc.exe">> }
HelloLocal == { <<"Application", "Blender">>, <<"Version", "4.0">>,
                <<"Path", "/tmp/Data Link/scene">> }
NotifyConnected == { <<"message", "Connected">> }

\* What is readable on the peer socket: a complete message ("full"), fewer
\* than 8 bytes of a header ("short"), or a header whose payload never
\* arrives ("nopayload").
Msg(op, data) == [wire |-> "full", op |-> op, data |-> data]
ShortHeader == [wire |-> "short", op |-> NONE, data |-> NoData]
Truncated(op, data) == [wire |-> "nopayload", op |-> op, data |-> data]
\* the local `header` before its first assignment, and b'' read at end of file
UnboundHeader == [wire |-> "unbound", op |-> NONE, data |-> NoData]
EofHeader == [wire |-> "eof", op |-> NONE, data |-> NoData]

\* The messages the peer sends in this model.
PeerMessages ==
    { Msg(HELLO, encode_from_json(HelloCC)), Msg(HELLO, encode_from_json(HelloLocal)),
      Msg(HELLO, NoData),
      Msg(PING, NoData), Msg(STOP, NoData), Msg(DISCONNECT, NoData),
      Msg(NOTIFY, encode_from_json(NotifyConnected)), Msg(NOTIFY, Garbage),
      Msg(PROP_UPDATE, encode_from_json(NotifyConnected)), Msg(999, NoData) }
PeerItems == PeerMessages \cup { ShortHeader }
\* What the peer queues behind an item that is still unread.
FollowItems == { Msg(PING, NoData) }

\* The characters of the scene (props.get_link_character_cache finds them),
\* by link id; no character has the link id NoActor.
Characters == 1..MaxActors
NoActor == 0
\* Python None for a list of actors, and for the cache of an actor
NoList == << NoActor >>
NoCache ==
    [none |-> TRUE, start |-> 0, end |-> 0, rot |-> <<>>, expr |-> <<>>, vis |-> <<>>]
\* An action with no curve in it (action.fcurves.clear()).
NoAction == [rot |-> <<>>, expr |-> <<>>, vis |-> <<>>]

\* The template of an actor that was never given one (the class attributes
\* of LinkActor), and the template of a character with a face.
NoTemplate == [bones |-> <<>>, expressions |-> <<>>, visemes |-> <<>>, morphs |-> <<>>]
FaceTemplate ==
    [bones |-> << "hip" >>, expressions |-> << "smile" >>, visemes |-> << "AA" >>,
     morphs |-> <<>>]
Templates == { NoTemplate, FaceTemplate }
\* A link id that no character of the scene has.
Stranger == MaxActors + 1

\* The characters of the scene as objects, and the link ids they may be
\* given: one more than there are characters.
Chrs == 1..MaxChars
Ids == 1..(MaxChars + 1)
NoChr == 0

Frames == 1..MaxFrame
Samples == 1..MaxSample

\* The bytes of a pose record (encode_pose_data): the actor count, the frame,
\* and for each actor its link id and its sample (the bone transforms and
\* the shape key weights).
PoseRecord(frame, entries) ==
    [fmt |-> "pose",
     doc |-> { <<"count", Len(entries)>>, <<"frame", frame>>, <<"actors", entries>> }]

\* The JSON document of a SEQUENCE (encode_sequence_data), with the keys
\* receive_sequence reads.
SequenceDoc(start, end, ids) ==
    { <<"start_frame", start>>, <<"end_frame", end>>, <<"actors", ids>> }

\* The JSON document of a TEMPLATE: the entry of an actor with all of its
\* lists, the entry encode_character_templates builds (name, link id and
\* bones only), and the document.
TemplateEntry(id, t) ==
    { <<"name", id>>, <<"link_id", id>>, <<"bones", t.bones>>,
      <<"expressions", t.expressions>>, <<"visemes", t.visemes>>,
      <<"morphs", t.morphs>> }
BonesEntry(id, bones) == { <<"name", id>>, <<"link_id", id>>, <<"bones", bones>> }
TemplateDoc(entries) == { <<"count", Len(entries)>>, <<"actors", entries>> }

-----------------------------------------------------------------------------
\* The record of all fields, and its commit

W == [ timer |-> timer, server_sock |-> server_sock, client_sock |-> client_sock,
       is_listening |-> is_listening, is_connected |-> is_connected,
       is_connecting |-> is_connecting, keepalive_timer |-> keepalive_timer,
       is_data |-> is_data, remote_app |-> remote_app,
       remote_version |-> remote_version, remote_path |-> remote_path,
       remote_exe |-> remote_exe,
       registered |-> registered, os_open |-> os_open, inq |-> inq,
       peer_closed |-> peer_closed, pending |-> pending, pc |-> pc,
       header |-> header, chunk |-> chunk, op_code |-> op_code, count |-> count, io |-> io, sock |-> sock,
       outbox |-> outbox, lost_emits |-> lost_emits, exc |-> exc, inq0 |-> inq0,
       resets |-> resets,
       use_keepalive |-> use_keepalive,
       delta_time |-> delta_time,
       handler |-> handler,
       actors |-> actors,
       sequence_actors |-> sequence_actors,
       sequence_current_frame |-> sequence_current_frame,
       sequence_start_frame |-> sequence_start_frame,
       cache |-> cache,
       is_sequence |-> is_sequence,
       callbacks |-> callbacks,
       frame_start |-> frame_start,
       frame_end |-> frame_end,
       frame_current |-> frame_current,
       seq_log |-> seq_log,
       template |-> template,
       action |-> action,
       received |-> received,
       delay |-> delay,
       ret |-> ret,
       released |-> released,
       registry |-> registry,
       scene |-> scene,
       codec |-> codec,
       pose |-> pose,
       connected_emits |-> connected_emits ]

\* The state after a handler; its outcome is computed once.
Commit(w) ==
    \E v \in { w } :
        /\ timer' = v.timer
        /\ server_sock' = v.server_sock
        /\ client_sock' = v.client_sock
        /\ is_listening' = v.is_listening
        /\ is_connected' = v.is_connected
        /\ is_connecting' = v.is_connecting
        /\ keepalive_timer' = v.keepalive_timer
        /\ is_data' = v.is_data
        /\ remote_app' = v.remote_app
        /\ remote_version' = v.remote_version
        /\ remote_path' = v.remote_path
        /\ remote_exe' = v.remote_exe
        /\ registered' = v.registered
        /\ os_open' = v.os_open
        /\ inq' = v.inq
        /\ peer_closed' = v.peer_closed
        /\ pending' = v.pending
        /\ pc' = v.pc
        /\ header' = v.header
        /\ chunk' = v.chunk
        /\ op_code' = v.op_code
        /\ count' = v.count /\ io' = v.io /\ sock' = v.sock
        /\ outbox' = v.outbox
        /\ lost_emits' = v.lost_emits
        /\ exc' = v.exc
        /\ inq0' = v.inq0
        /\ resets' = v.resets
        /\ use_keepalive' = v.use_keepalive
        /\ delta_time' = v.delta_time
        /\ handler' = v.handler
        /\ actors' = v.actors
        /\ sequence_actors' = v.sequence_actors
        /\ sequence_current_frame' = v.sequence_current_frame
        /\ sequence_start_frame' = v.sequence_start_frame
        /\ cache' = v.cache
        /\ is_sequence' = v.is_sequence
        /\ callbacks' = v.callbacks
        /\ frame_start' = v.frame_start
        /\ frame_end' = v.frame_end
        /\ frame_current' = v.frame_current
        /\ seq_log' = v.seq_log
        /\ template' = v.template
        /\ action' = v.action
        /\ received' = v.received
        /\ delay' = v.delay
        /\ ret' = v.ret
        /\ released' = v.released
        /\ registry' = v.registry
        /\ scene' = v.scene
        /\ codec' = v.codec
        /\ pose' = v.pose
        /\ connected_emits' = v.connected_emits

\* A handler starts: nothing written, emitted or raised yet.
Fresh(w) ==
    [w EXCEPT !.outbox = <<>>, !.lost_emits = 0, !.exc = NoExc, !.resets = 0,
              !.released = {}, !.connected_emits = 0]

\* The operation `name` starts.
Begin(w, name) == [Fresh(w) EXCEPT !.handler = name]

\* An exception leaves the operation that raised it; what follows is skipped.
Raise(w, e) == IF w.exc = NoExc THEN [w EXCEPT !.exc = e] ELSE w

\* The locals of recv() and the observation of it, outside a tick.
ClearLocals(w) ==
    [w EXCEPT !.header = UnboundHeader, !.chunk = UnboundChunk,
              !.op_code = OpNone, !.count = 0, !.io = "none", !.sock = NoSock,
              !.inq0 = <<>>, !.delta_time = 0, !.handler = "none",
              !.delay = NoDelay, !.ret = Null]

-----------------------------------------------------------------------------
\* Timer

start_timer(w) ==
    IF ~w.timer THEN [w EXCEPT !.registered = TRUE, !.timer = TRUE] ELSE w

stop_timer(w) ==
    IF w.timer THEN [w EXCEPT !.registered = FALSE, !.timer = FALSE] ELSE w

-----------------------------------------------------------------------------
\* Sockets

\* A new socket object: an id no open socket has.  A socket that was dropped
\* without close() is reclaimed by the interpreter at the latest when the
\* ids run out.
NewSock(w) ==
    IF PeerSocks \ w.os_open # {}
    THEN CHOOSE s \in PeerSocks \ w.os_open :
             \A t \in PeerSocks \ w.os_open : s <= t
    ELSE CHOOSE s \in PeerSocks \ {w.client_sock} :
             \A t \in PeerSocks \ {w.client_sock} : s <= t

Held(w) == IF w.client_sock = NoSock THEN {} ELSE {w.client_sock}

\* Whether a local of the running method refers to the peer socket: the list
\* `r` of recv() while its loop runs, `sock` of accept().
Pinned(w) ==
    \/ w.pc \in {"recv_loop", "recv_chunk", "recv_extend", "recv_tail"}
    \/ (w.sock # NoSock /\ w.sock = w.client_sock)

\* stop_client: shutdown() is called without its argument, raises TypeError
\* and the bare except skips close(): the socket object is only dropped, and
\* closed by its finalizer once nothing refers to it.
\* self.listening is a Signal object, always true.
\* A stop_client() that clears the flags and keeps self.client_sock: the
\* variant against which the release of the socket is checked.
stop_client_keeps_ref(w) ==
    [w EXCEPT !.is_connected = FALSE, !.is_connecting = FALSE,
              !.released = @ \cup Held(w),
              !.keepalive_timer = HANDSHAKE_TIMEOUT_S]

\* A stop_client() that releases the socket and leaves the flags: the
\* variant against which the flags of a link without a socket are checked.
stop_client_keeps_flags(w) ==
    [w EXCEPT !.client_sock = NoSock, !.inq = <<>>, !.peer_closed = FALSE,
              !.os_open = IF Pinned(w) THEN @ ELSE @ \ {w.client_sock},
              !.released = @ \cup Held(w),
              !.keepalive_timer = HANDSHAKE_TIMEOUT_S]

stop_client(w) ==
    [w EXCEPT !.is_connected = FALSE, !.is_connecting = FALSE,
              !.client_sock = NoSock, !.inq = <<>>, !.peer_closed = FALSE,
              !.os_open = IF Pinned(w) THEN @ ELSE @ \ {w.client_sock},
              !.released = @ \cup Held(w),
              !.keepalive_timer = HANDSHAKE_TIMEOUT_S]

stop_server(w) ==
    [w EXCEPT !.is_listening = FALSE, !.server_sock = NoSock, !.pending = 0]

has_client_sock(w) ==
    w.client_sock # NoSock /\ (w.is_connected \/ w.is_connecting)

\* A service_lost() that leaves the timer running: the variant against
\* which the return to Idle is checked.
service_lost_timer_runs(w) ==
    stop_server(stop_client(
        [w EXCEPT !.lost_emits = IF @ < MaxLost THEN @ + 1 ELSE @]))

service_lost(w) ==
    stop_server(stop_client(stop_timer(
        [w EXCEPT !.lost_emits = IF @ < MaxLost THEN @ + 1 ELSE @])))

\* The frame sendall() writes: the header (op_code, data_length) and the body.
Frame(w, op, data, ok) ==
    [sock |-> w.client_sock, op |-> op, length |-> ByteLen(data),
     body |-> data, ok |-> ok]

\* A send() whose except branch does not call service_lost(): the variant
\* against which the failure path of send is checked.
send_keeps_socket(w, op, data, ok) ==
    IF w.client_sock # NoSock /\ (w.is_connected \/ w.is_connecting)
    THEN [w EXCEPT !.outbox = Append(@, Frame(w, op, data, ok))]
    ELSE w

\* The log of the sequence messages written.  It starts, and starts again,
\* with a SEQUENCE written while no callback of an earlier send_sequence is
\* connected, it goes when the handler that wrote the SEQUENCE_END has
\* returned, and it stops at the first message that is out of order.
SeqOps == { SEQUENCE, TEMPLATE, SEQUENCE_FRAME, SEQUENCE_END }

\* The order of the messages of one sequence: SEQUENCE, TEMPLATE, the frames
\* from the start frame up by one to the end frame, SEQUENCE_END.
InOrder(log) ==
    \A i \in DOMAIN log :
        CASE i = 1 -> log[i].op = SEQUENCE
          [] i = 2 -> log[i].op = TEMPLATE
          [] i = 3 -> log[i].op = SEQUENCE_FRAME /\ log[i].frame = log[1].frame
          [] OTHER ->
                /\ log[i - 1].op = SEQUENCE_FRAME
                /\ IF log[i - 1].frame >= log[1].end
                   THEN log[i].op = SEQUENCE_END
                   ELSE /\ log[i].op = SEQUENCE_FRAME
                        /\ log[i].frame = log[i - 1].frame + 1

LogEntry(op, data) ==
    [op |-> op,
     frame |-> CASE op = SEQUENCE_FRAME -> Get(data.doc, "frame")
                 [] op = SEQUENCE -> Get(data.doc, "start_frame")
                 [] OTHER -> 0,
     end |-> IF op = SEQUENCE THEN Get(data.doc, "end_frame") ELSE 0]

Logged(w, op, data) ==
    IF op \notin SeqOps THEN w.seq_log
    ELSE IF op = SEQUENCE /\ w.callbacks = <<>> THEN << LogEntry(op, data) >>
    ELSE IF w.seq_log # <<>> /\ Len(w.seq_log) < MaxLog /\ InOrder(w.seq_log)
    THEN Append(w.seq_log, LogEntry(op, data))
    ELSE w.seq_log

\* send(op_code, binary_data); ok is whether sendall() succeeds.
send(w, op, data, ok) ==
    IF w.client_sock # NoSock /\ (w.is_connected \/ w.is_connecting)
    THEN LET w1 == [w EXCEPT !.outbox = Append(@, Frame(w, op, data, ok)),
                             !.seq_log = Logged(w, op, data)]
         IN  IF ok THEN w1 ELSE service_lost(w1)
    ELSE w

send_hello(w, ok) == send(w, HELLO, encode_from_json(HelloLocal), ok)

send_notify(w, message, ok) ==
    send(w, NOTIFY, encode_from_json({ <<"message", message>> }), ok)

on_connected(w, ok) == send_notify(w, "Connected", ok)

\* self.connected.emit(); the count of one handler saturates.
ConnectedEmit(w) == [w EXCEPT !.connected_emits = IF @ < MaxLost THEN @ + 1 ELSE @]

\* A service_initialize() that sets is_connected and leaves is_connecting:
\* the variant against which the exclusion of the two flags is checked.
service_initialize_both(w, ok) ==
    IF w.is_connecting
    THEN ConnectedEmit(on_connected([w EXCEPT !.is_connected = TRUE], ok))
    ELSE w

\* A service_initialize() without the test of is_connecting: the variant
\* against which the single completion of the handshake is checked.
service_initialize_always(w, ok) ==
    ConnectedEmit(
        on_connected([w EXCEPT !.is_connecting = FALSE, !.is_connected = TRUE], ok))

service_initialize(w, ok) ==
    IF w.is_connecting
    THEN ConnectedEmit(
             on_connected([w EXCEPT !.is_connecting = FALSE, !.is_connected = TRUE], ok))
    ELSE w

service_disconnect(w, ok) ==
    LET w1 == send(w, DISCONNECT, NoData, ok)
    IN  stop_client(IF CLIENT_ONLY THEN stop_timer(w1) ELSE w1)

\* A service_stop() that closes the peer socket first and writes the STOP
\* after: the variant against which the order is checked.
service_stop_close_first(w, ok) ==
    send(stop_server(stop_client(stop_timer(w))), STOP, NoData, ok)

service_stop(w, ok) ==
    stop_server(stop_client(stop_timer(send(w, STOP, NoData, ok))))

\* start_server; bound is whether bind() and listen() succeed.
start_server(w, bound) ==
    IF w.server_sock = NoSock
    THEN IF bound
         THEN [w EXCEPT !.keepalive_timer = HANDSHAKE_TIMEOUT_S,
                        !.server_sock = ServerSock, !.is_listening = TRUE]
         ELSE [w EXCEPT !.keepalive_timer = HANDSHAKE_TIMEOUT_S,
                        !.server_sock = NoSock, !.is_listening = TRUE]
    ELSE w

\* The socket s becomes the peer socket: a new stream, nothing queued on it.
\* A socket that client_sock and client_sockets referred to is overwritten,
\* not closed: its finalizer closes it.
Install(w, s) ==
    [w EXCEPT !.client_sock = s, !.os_open = (@ \ {w.client_sock}) \cup {s},
              !.inq = <<>>,
              !.peer_closed = FALSE, !.is_connected = FALSE,
              !.is_connecting = TRUE, !.keepalive_timer = KEEPALIVE_TIMEOUT_S]

\* try_start_client; reached is whether connect() succeeds.  The result is
\* the record after the call and the value returned.
try_start_client(w, reached, ok) ==
    IF w.client_sock = NoSock
    THEN IF reached
         THEN [w |-> send_hello(Install(w, NewSock(w)), ok), ret |-> TRUE]
         ELSE [w |-> [w EXCEPT !.client_sock = NoSock, !.is_connected = FALSE,
                               !.is_connecting = FALSE],
               ret |-> FALSE]
    ELSE [w |-> w, ret |-> TRUE]

service_start(w, reached, ok, bound) ==
    IF ~w.is_listening
    THEN LET w1 == start_timer(w)
         IN  IF SERVER_ONLY
             THEN start_server(w1, bound)
             ELSE LET t == try_start_client(w1, reached, ok)
                  IN  IF ~t.ret /\ ~CLIENT_ONLY
                      THEN start_server(t.w, bound)
                      ELSE t.w
    ELSE w

-----------------------------------------------------------------------------
\* Opcode dispatcher

\* decode_to_json: data.decode("utf-8") of None raises AttributeError,
\* json.loads of anything but a JSON document raises JSONDecodeError.
decode_to_json(data) ==
    CASE data.fmt = "json" -> [exc |-> NoExc, doc |-> data.doc]
      [] data.fmt = "none" -> [exc |-> "AttributeError", doc |-> {}]
      [] OTHER -> [exc |-> "JSONDecodeError", doc |-> {}]

\* The assignments with "Path" and "Exe" exchanged: the variant against which
\* the remote fields are checked.
HelloFieldsExchanged ==
    << <<"Application", "remote_app">>, <<"Version", "remote_version">>,
       <<"Exe", "remote_path">>, <<"Path", "remote_exe">> >>

\* The assignments of the HELLO branch, in their order: JSON key, field.
HelloFields == << <<"Application", "remote_app">>, <<"Version", "remote_version">>,
                  <<"Path", "remote_path">>, <<"Exe", "remote_exe">> >>

\* self.<field> = json_data[<key>], one after the other; the first missing
\* key raises KeyError and leaves the fields after it as they were.
RECURSIVE AssignHello(_, _, _)
AssignHello(w, doc, i) ==
    IF i > Len(HelloFields) THEN w
    ELSE IF ~HasKey(doc, HelloFields[i][1]) THEN Raise(w, "KeyError")
    ELSE AssignHello([w EXCEPT ![HelloFields[i][2]] = Get(doc, HelloFields[i][1])],
                     doc, i + 1)

\* The HELLO branch of parse.
parse_hello(w, data, ok) ==
    LET w1 == service_initialize(w, ok)
    IN  IF data.fmt # "none"
        THEN LET j == decode_to_json(data)
             IN  IF j.exc # NoExc THEN Raise(w1, j.exc)
                 ELSE AssignHello(w1, j.doc, 1)
        ELSE w1

\* receive_notify: the text goes to the scene's link_status, which is not
\* part of the link state.
receive_notify(w, data) ==
    LET j == decode_to_json(data)
    IN  IF j.exc # NoExc THEN Raise(w, j.exc)
        ELSE IF ~HasKey(j.doc, "message") THEN Raise(w, "KeyError")
        ELSE w

-----------------------------------------------------------------------------
\* Registry, frames and caches

\* LinkData.get_actor: the entry with the link id, or a new entry when the
\* scene has a character with it, or None.
get_actor(w, link_id) ==
    IF \E i \in DOMAIN w.actors : w.actors[i] = link_id
    THEN [w |-> w, actor |-> link_id]
    ELSE IF link_id \in Characters
    THEN [w |-> [w EXCEPT !.actors = Append(@, link_id)], actor |-> link_id]
    ELSE [w |-> w, actor |-> NoActor]

-----------------------------------------------------------------------------
\* Strings on the wire

\* A string is the sequence of its code points: a, b, e acute, the euro sign
\* and an emoji take 1, 1, 2, 3 and 4 bytes in UTF-8.
Alphabet == { 97, 98, 233, 8364, 128512 }
Strings == UNION { [1..n -> Alphabet] : n \in 0..MaxStrLen }

\* bytes(s, encoding="utf-8") of one code point, and of a string.
Utf8Char(cp) ==
    IF cp < 128 THEN << cp >>
    ELSE IF cp < 2048 THEN << 192 + (cp \div 64), 128 + (cp % 64) >>
    ELSE IF cp < 65536
    THEN << 224 + (cp \div 4096), 128 + ((cp \div 64) % 64), 128 + (cp % 64) >>
    ELSE << 240 + (cp \div 262144), 128 + ((cp \div 4096) % 64),
            128 + ((cp \div 64) % 64), 128 + (cp % 64) >>

RECURSIVE Utf8(_)
Utf8(str) == IF str = <<>> THEN <<>> ELSE Utf8Char(Head(str)) \o Utf8(Tail(str))

\* struct.pack("!I", n): four bytes, the most significant first.
PackU32(n) ==
    << (n \div 16777216) % 256, (n \div 65536) % 256, (n \div 256) % 256, n % 256 >>

\* struct.unpack_from("!I", buffer, offset): struct.error when fewer than
\* four bytes are left.
UnpackU32(buffer, offset) ==
    IF Len(buffer) - offset < 4 THEN [exc |-> "struct.error", n |-> 0]
    ELSE [exc |-> NoExc,
          n |-> buffer[offset + 1] * 16777216 + buffer[offset + 2] * 65536
                + buffer[offset + 3] * 256 + buffer[offset + 4]]

\* buffer[a:b]: a slice ends where the buffer ends.
Slice(buffer, a, b) ==
    SubSeq(buffer, a + 1, IF b < Len(buffer) THEN b ELSE Len(buffer))

\* The number of bytes the lead byte b announces, 0 when b leads nothing.
Utf8Width(b) ==
    IF b < 128 THEN 1
    ELSE IF b >= 192 /\ b < 224 THEN 2
    ELSE IF b >= 224 /\ b < 240 THEN 3
    ELSE IF b >= 240 /\ b < 248 THEN 4
    ELSE 0

\* The code point of the n bytes of data from position i on.
Utf8Point(data, i, n) ==
    IF n = 1 THEN data[i]
    ELSE IF n = 2 THEN (data[i] - 192) * 64 + (data[i + 1] - 128)
    ELSE IF n = 3
    THEN (data[i] - 224) * 4096 + (data[i + 1] - 128) * 64 + (data[i + 2] - 128)
    ELSE (data[i] - 240) * 262144 + (data[i + 1] - 128) * 4096
         + (data[i + 2] - 128) * 64 + (data[i + 3] - 128)

\* bytes.decode(encoding="utf-8") from position i on: UnicodeDecodeError on a
\* byte that leads nothing and on a character cut short.
RECURSIVE Utf8Decode(_, _, _)
Utf8Decode(data, i, found) ==
    IF i > Len(data) THEN [exc |-> NoExc, str |-> found]
    ELSE LET n == Utf8Width(data[i])
         IN  IF n = 0 \/ i + n - 1 > Len(data)
                \/ \E k \in 1..(n - 1) : data[i + k] < 128 \/ data[i + k] >= 192
             THEN [exc |-> "UnicodeDecodeError", str |-> found]
             ELSE Utf8Decode(data, i + n, Append(found, Utf8Point(data, i, n)))

\* pack_string: len(s) is the number of characters of s.
pack_string(str) == PackU32(Len(str)) \o Utf8(str)

\* unpack_string: the offset after the string, and the string.
unpack_string(buffer, offset) ==
    LET h == UnpackU32(buffer, offset)
    IN  IF h.exc # NoExc THEN [exc |-> h.exc, offset |-> offset, str |-> <<>>]
        ELSE LET d == Utf8Decode(Slice(buffer, offset + 4, offset + 4 + h.n), 1, <<>>)
             IN  IF d.exc # NoExc
                 THEN [exc |-> d.exc, offset |-> offset + 4 + h.n, str |-> <<>>]
                 ELSE [exc |-> NoExc, offset |-> offset + 4 + h.n, str |-> d.str]

\* No string is under way.
NoCodec ==
    [stage |-> "none", str |-> <<>>, buffer |-> <<>>, exc |-> NoExc, offset |-> 0,
     out |-> <<>>]

-----------------------------------------------------------------------------
\* Pose records, byte by byte

\* struct.pack("!f", v): the four bytes of one float; k counts them.  A read
\* that starts at a byte with k # 1 takes its bytes from two neighbours.
F32(v) == [k \in 1..4 |-> [v |-> v, k |-> k]]

RECURSIVE Floats(_)
Floats(vals) == IF vals = <<>> THEN <<>> ELSE F32(Head(vals)) \o Floats(Tail(vals))

\* struct.pack("!ffffffffff", t.x, t.y, t.z, r.x, r.y, r.z, r.w, s.x, s.y, s.z)
\* of a transform with translation (t, t, t), no rotation and scale 1.
Xform(t) == Floats(<< t, t, t, 0, 0, 0, 1, 1, 1, 1 >>)

\* Lengths of the scene; the integer division of the decoder is exact on
\* their hundredfold.
Lengths == { 100, 200 }

\* The templates: the numbers of bones, expressions and visemes of the actor.
PoseTemplates ==
    [bones : 0..MaxChannels, expressions : 0..MaxChannels, visemes : 0..MaxChannels]

\* Names of the i-th expression and the i-th viseme of a template; the viseme
\* names are keys of VISEME_NAME_MAP, the expression names are not.
ExpressionName(i) == << "expression", i >>
VisemeName(i) == << "viseme", i >>
VISEME_NAME_MAP == { VisemeName(i) : i \in 1..(MaxChannels + 1) }

\* n times the bytes x.
RECURSIVE Repeat(_, _)
Repeat(x, n) == IF n = 0 THEN <<>> ELSE x \o Repeat(x, n - 1)

\* encode_pose_data on bytes: the count, the frame and, per actor, the two
\* strings and one transform per pose bone; only the rigified path
\* multiplies the translation by 100.
RECURSIVE encode_pose_bytes_actors(_)
encode_pose_bytes_actors(posed) ==
    IF posed = <<>> THEN <<>>
    ELSE LET actor == Head(posed)
         IN  pack_string(actor.name) \o pack_string(actor.link_id)
             \o Repeat(Xform(IF actor.rigified THEN actor.t * 100 ELSE actor.t),
                       actor.tmpl.bones)
             \o encode_pose_bytes_actors(Tail(posed))

encode_pose_bytes(posed, frame) ==
    PackU32(Len(posed)) \o PackU32(frame) \o encode_pose_bytes_actors(posed)

\* The record the decoder is written for, as the peer builds it: after the
\* two strings the transform of the rig, the number of bones, the bones, the
\* expression weights and the viseme weights.
RECURSIVE peer_pose_bytes_actors(_)
peer_pose_bytes_actors(posed) ==
    IF posed = <<>> THEN <<>>
    ELSE LET actor == Head(posed)
         IN  pack_string(actor.name) \o pack_string(actor.link_id)
             \o Xform(actor.t * 100) \o PackU32(actor.tmpl.bones)
             \o Repeat(Xform(actor.t * 100), actor.tmpl.bones)
             \o Floats(actor.expression_weights) \o Floats(actor.viseme_weights)
             \o peer_pose_bytes_actors(Tail(posed))

peer_pose_bytes(posed, frame) ==
    PackU32(Len(posed)) \o PackU32(frame) \o peer_pose_bytes_actors(posed)

\* struct.unpack_from("!f", data, offset) and the first float of
\* struct.unpack_from("!ffffffffff", data, offset): struct.error when the
\* buffer has fewer bytes left than the format takes.
UnpackFloats(data, offset, n) ==
    IF Len(data) - offset < 4 * n THEN [exc |-> "struct.error", v |-> 0, whole |-> FALSE]
    ELSE [exc |-> NoExc, v |-> data[offset + 1].v, whole |-> data[offset + 1].k = 1]

\* The loop variable expression_name before the loop over the expressions
\* has bound it.
Unbound == << "unbound" >>

\* What decode_pose_data has read and done so far.
NoDecoded ==
    [exc |-> NoExc, offset |-> 0, frame |-> 0, names |-> <<>>, root |-> <<>>,
     bones |-> <<>>, expression_name |-> Unbound, shape_keys |-> <<>>,
     expression_weights |-> <<>>, viseme_weights |-> <<>>]

\* for bone_name in actor.bones: ten floats each, the location is the
\* translation times 0.01.
RECURSIVE decode_bones(_, _, _)
decode_bones(data, d, n) ==
    IF n = 0 THEN d
    ELSE LET x == UnpackFloats(data, d.offset, 10)
         IN  IF x.exc # NoExc THEN [d EXCEPT !.exc = x.exc]
             ELSE decode_bones(data,
                      [d EXCEPT !.offset = @ + 40,
                                !.bones = Append(@, [loc |-> x.v \div 100,
                                                     whole |-> x.whole])], n - 1)

\* for i, expression_name in enumerate(actor.expressions):
\* set_actor_expression_weight sets the shape key of the name.
RECURSIVE decode_expressions(_, _, _, _)
decode_expressions(data, d, i, n) ==
    IF i > n THEN d
    ELSE LET x == UnpackFloats(data, d.offset, 1)
         IN  IF x.exc # NoExc THEN [d EXCEPT !.exc = x.exc]
             ELSE decode_expressions(data,
                      [d EXCEPT !.offset = @ + 4,
                                !.expression_name = ExpressionName(i),
                                !.shape_keys =
                                    Append(@, [name |-> ExpressionName(i), value |-> x.v]),
                                !.expression_weights = Append(@, x.v)], i + 1, n)

\* set_actor_viseme_weight: a name that is no key of VISEME_NAME_MAP sets
\* nothing.
set_actor_viseme_weight(shape_keys, viseme_name, weight) ==
    IF viseme_name \in VISEME_NAME_MAP
    THEN Append(shape_keys, [name |-> viseme_name, value |-> weight])
    ELSE shape_keys

\* The body of the loop over the visemes:
\* set_actor_viseme_weight(objects, expression_name, weight).
decode_viseme(d, i, weight) ==
    IF d.expression_name = Unbound THEN [d EXCEPT !.exc = "UnboundLocalError"]
    ELSE [d EXCEPT !.shape_keys =
                       set_actor_viseme_weight(@, d.expression_name, weight)]

\* for i, viseme_name in enumerate(actor.visemes)
RECURSIVE decode_visemes(_, _, _, _)
decode_visemes(data, d, i, n) ==
    IF i > n THEN d
    ELSE LET x == UnpackFloats(data, d.offset, 1)
         IN  IF x.exc # NoExc THEN [d EXCEPT !.exc = x.exc]
             ELSE LET d1 == decode_viseme([d EXCEPT !.offset = @ + 4], i, x.v)
                  IN  IF d1.exc # NoExc THEN d1
                      ELSE decode_visemes(data,
                               [d1 EXCEPT !.viseme_weights = Append(@, x.v)], i + 1, n)

\* The body of decode_pose_data for one actor of the record, which the scene
\* has with a rig, its objects and the template tmpl.  The number of bones
\* is read at offset 0 and four bytes are passed over.
decode_pose_actor(data, d, tmpl) ==
    LET name == unpack_string(data, d.offset)
        link_id == unpack_string(data, name.offset)
        root == UnpackFloats(data, link_id.offset, 10)
    IN  IF name.exc # NoExc THEN [d EXCEPT !.exc = name.exc]
        ELSE IF link_id.exc # NoExc THEN [d EXCEPT !.exc = link_id.exc]
        ELSE IF root.exc # NoExc
        THEN [d EXCEPT !.exc = root.exc, !.offset = link_id.offset,
                       !.names = @ \o << name.str, link_id.str >>]
        ELSE LET d1 == [d EXCEPT !.offset = link_id.offset + 40 + 4,
                                 !.names = @ \o << name.str, link_id.str >>,
                                 !.root = Append(@, [loc |-> root.v \div 100,
                                                     whole |-> root.whole])]
                 d2 == decode_bones(data, d1, tmpl.bones)
                 d3 == IF d2.exc # NoExc THEN d2
                       ELSE decode_expressions(data, d2, 1, tmpl.expressions)
             IN  IF d3.exc # NoExc THEN d3
                 ELSE decode_visemes(data, d3, 1, tmpl.visemes)

RECURSIVE decode_pose_actors(_, _, _, _)
decode_pose_actors(data, d, left, tmpl) ==
    IF left = 0 \/ d.exc # NoExc THEN d
    ELSE decode_pose_actors(data, decode_pose_actor(data, d, tmpl), left - 1, tmpl)

\* decode_pose_data on bytes.
decode_pose_bytes(data, tmpl) ==
    LET n_actors == UnpackU32(data, 0)
        frame == UnpackU32(data, 4)
    IN  IF frame.exc # NoExc THEN [NoDecoded EXCEPT !.exc = frame.exc]
        ELSE decode_pose_actors(data,
                 [NoDecoded EXCEPT !.offset = 8, !.frame = frame.n], n_actors.n, tmpl)

\* The actors a pose record is made of: none, or one with a template, a
\* path through the encoder, a length and weights.
PoseActors ==
    { <<>> } \cup
    { << [name |-> << 97 >>, link_id |-> << 98 >>, tmpl |-> tmpl, rigified |-> rigified,
          t |-> t, expression_weights |-> ew, viseme_weights |-> vw] >> :
        << tmpl, rigified, t, ew, vw >> \in
            { x \in PoseTemplates \X BOOLEAN \X Lengths
                    \X (UNION { [1..n -> Samples] : n \in 0..MaxChannels })
                    \X (UNION { [1..n -> Samples] : n \in 0..MaxChannels }) :
                /\ Len(x[4]) = x[1].expressions
                /\ Len(x[5]) = x[1].visemes } }

\* No pose record is under way.
NoPose ==
    [stage |-> "none", by |-> "none", actors |-> <<>>, frame |-> 0, data |-> <<>>,
     decoded |-> NoDecoded]

\* props.get_link_character_cache: the first character of the scene whose
\* cache has the link id, or None.
get_link_character_cache(w, link_id) ==
    IF \E c \in Chrs : w.scene[c] = link_id
    THEN CHOOSE c \in Chrs :
             w.scene[c] = link_id /\ \A d \in Chrs : w.scene[d] = link_id => c <= d
    ELSE NoChr

\* LinkData.add_actor: the entry of the character cache, or a new entry.
add_actor(w, chr) ==
    IF \E i \in DOMAIN w.registry : w.registry[i].chr = chr
    THEN w
    ELSE [w EXCEPT !.registry = Append(@, [chr |-> chr, link_id |-> w.scene[chr]])]

\* The index in LINK_DATA.actors of the entry LinkData.get_actor returns, 0
\* for None: the first entry with the link id, or the entry add_actor gives
\* the character the scene has under that id.
FirstWith(reg, link_id) ==
    IF \E i \in DOMAIN reg : reg[i].link_id = link_id
    THEN CHOOSE i \in DOMAIN reg :
             reg[i].link_id = link_id /\ \A j \in DOMAIN reg : reg[j].link_id = link_id => i <= j
    ELSE 0

IndexOfChr(reg, chr) ==
    IF \E i \in DOMAIN reg : reg[i].chr = chr
    THEN CHOOSE i \in DOMAIN reg : reg[i].chr = chr
    ELSE 0

\* LinkData.get_actor on the registry of objects.
get_registered(w, link_id) ==
    IF FirstWith(w.registry, link_id) # 0
    THEN [w |-> w, at |-> FirstWith(w.registry, link_id)]
    ELSE LET chr == get_link_character_cache(w, link_id)
         IN  IF chr = NoChr THEN [w |-> w, at |-> 0]
             ELSE LET w1 == add_actor(w, chr)
                  IN  [w |-> w1, at |-> IndexOfChr(w1.registry, chr)]

\* LinkActor.update: the link id of the entry and of its character cache.
update(w, at, new_link_id) ==
    [w EXCEPT !.registry[at].link_id = new_link_id,
              !.scene[w.registry[at].chr] = new_link_id]

\* receive_character_update: get_actor(old_link_id) of None has no update.
receive_character_update(w, old_link_id, new_link_id) ==
    LET g == get_registered(w, old_link_id)
    IN  IF g.at = 0 THEN Raise(g.w, "AttributeError")
        ELSE update(g.w, g.at, new_link_id)

\* LinkData.reset
reset(w) == [w EXCEPT !.actors = <<>>, !.sequence_actors = NoList]

\* get_selected_actors: the actors of the selected characters, each once.
RECURSIVE get_selected_actors(_, _, _, _)
get_selected_actors(w, sel, i, found) ==
    IF i > Len(sel) THEN [w |-> w, actors |-> found]
    ELSE LET g == get_actor(w, sel[i])
         IN  IF g.actor # NoActor /\ ~\E k \in DOMAIN found : found[k] = g.actor
             THEN get_selected_actors(g.w, sel, i + 1, Append(found, g.actor))
             ELSE get_selected_actors(g.w, sel, i + 1, found)

ensure_current_frame(w, current_frame) ==
    [w EXCEPT !.frame_current = current_frame]

next_frame(w, current_frame) ==
    LET f == IF current_frame + 1 < w.frame_end THEN current_frame + 1
             ELSE w.frame_end
    IN  [w EXCEPT !.frame_current = f, !.sequence_current_frame = f]

\* create_fcurves_cache: one curve of n pairs (frame, value), every
\* entry of it the default d.
create_fcurves_cache(n, d) ==
    [i \in 1..(IF n > 0 THEN 2 * n ELSE 0) |-> d]

\* prep_rig: the actions of the character are cleared, and the actor gets
\* its cache: a rotation curve for the bones of the rig (default 1), and a
\* curve (default 0) for each expression and each viseme the actor has now.
prep_rig(w, actor, start_frame, end_frame) ==
    LET n == end_frame - start_frame + 1
    IN  [w EXCEPT !.action[actor] = NoAction,
                  !.cache[actor] =
            [none |-> FALSE, start |-> start_frame, end |-> end_frame,
             rot |-> create_fcurves_cache(n, 1),
             expr |-> [i \in DOMAIN w.template[actor].expressions |->
                          create_fcurves_cache(n, 0)],
             vis |-> [i \in DOMAIN w.template[actor].visemes |->
                         create_fcurves_cache(n, 0)]]]

\* curve[i] of a Python list of n entries: the position, counted from 1, or 0
\* where it raises IndexError.  A negative index counts from the end.
PyIndex(n, i) ==
    IF i >= 0 THEN (IF i < n THEN i + 1 ELSE 0)
    ELSE (IF -i <= n THEN n + i + 1 ELSE 0)

\* The index of the pair of a frame, against which the slot written is
\* checked: the variant that leaves out the factor 2.
CacheIndexUnscaled(frame, start_frame) == frame - start_frame

\* cache_index = (frame - start_frame) * 2
CacheIndex(frame, start_frame) == (frame - start_frame) * 2

\* curve[cache_index] = frame; curve[cache_index + 1] = value
StoreKeyframe(curve, frame, start_frame, value) ==
    LET a == PyIndex(Len(curve), CacheIndex(frame, start_frame))
        b == PyIndex(Len(curve), CacheIndex(frame, start_frame) + 1)
    IN  IF a = 0 \/ b = 0 THEN [exc |-> "IndexError", curve |-> curve]
        ELSE [exc |-> NoExc,
              curve |-> [[curve EXCEPT ![a] = frame] EXCEPT ![b] = value]]

\* for i, name in enumerate(cache): curve[cache_index] = frame;
\* curve[cache_index + 1] = weights[i].  The cache has the names the actor had
\* when the cache was made, weights has one entry for each name it has now.
RECURSIVE StoreWeights(_, _, _, _, _)
StoreWeights(curves, weights, frame, start_frame, i) ==
    IF i > Len(curves) THEN [exc |-> NoExc, curves |-> curves]
    ELSE LET a == PyIndex(Len(curves[i]), CacheIndex(frame, start_frame))
             b == PyIndex(Len(curves[i]), CacheIndex(frame, start_frame) + 1)
         IN  IF a = 0 THEN [exc |-> "IndexError", curves |-> curves]
             ELSE IF b = 0 \/ i > Len(weights)
             THEN [exc |-> "IndexError", curves |-> [curves EXCEPT ![i][a] = frame]]
             ELSE StoreWeights([curves EXCEPT ![i][a] = frame, ![i][b] = weights[i]],
                               weights, frame, start_frame, i + 1)

\* store_shape_key_cache_keyframes; actor.cache of None is not subscriptable.
store_shape_key_cache_keyframes(w, actor, frame, expression_weights, viseme_weights) ==
    IF w.cache[actor].none THEN Raise(w, "TypeError")
    ELSE LET e == StoreWeights(w.cache[actor].expr, expression_weights, frame,
                               w.cache[actor].start, 1)
             w1 == [w EXCEPT !.cache[actor].expr = e.curves]
         IN  IF e.exc # NoExc THEN Raise(w1, e.exc)
             ELSE LET v == StoreWeights(w1.cache[actor].vis, viseme_weights, frame,
                                        w1.cache[actor].start, 1)
                      w2 == [w1 EXCEPT !.cache[actor].vis = v.curves]
                  IN  IF v.exc # NoExc THEN Raise(w2, v.exc) ELSE w2

\* store_bone_cache_keyframes; value is the rotation the pose of the rig has.
store_bone_cache_keyframes(w, actor, frame, value) ==
    IF w.cache[actor].none THEN Raise(w, "TypeError")
    ELSE LET k == StoreKeyframe(w.cache[actor].rot, frame,
                                w.cache[actor].start, value)
         IN  IF k.exc # NoExc THEN Raise(w, k.exc)
             ELSE [w EXCEPT !.cache[actor].rot = k.curve]

\* write_sequence_actions: the curves of the cache become the curves of the
\* actions, count points each, and the cache goes.
write_sequence_actions(w, actor) ==
    IF w.cache[actor].none THEN w
    ELSE [w EXCEPT !.action[actor] = [rot |-> w.cache[actor].rot,
                                      expr |-> w.cache[actor].expr,
                                      vis |-> w.cache[actor].vis],
                   !.cache[actor] = NoCache]

-----------------------------------------------------------------------------
\* Sequences

start_sequence(w, func) ==
    IF func # Null
    THEN [w EXCEPT !.is_sequence = TRUE, !.callbacks = Append(@, func)]
    ELSE [w EXCEPT !.is_sequence = TRUE, !.callbacks = <<>>]

stop_sequence(w) == [w EXCEPT !.is_sequence = FALSE, !.callbacks = <<>>]

\* encode_pose_data: the pose of each actor at scene.frame_current.
encode_pose_data(w, ids) ==
    PoseRecord(w.frame_current,
               [i \in DOMAIN ids |-> [link_id |-> ids[i], sample |-> 1]])

encode_sequence_data(w, ids) ==
    encode_from_json(SequenceDoc(w.frame_start, w.frame_end, ids))

encode_character_templates(ids) ==
    encode_from_json(TemplateDoc([i \in DOMAIN ids |-> BonesEntry(ids[i], << "hip" >>)]))

\* A set_template that extends the lists of the actor: the variant against
\* which the second application of a template is checked.
set_template_extending(w, actor, bones, expressions, visemes, morphs) ==
    [w EXCEPT !.template[actor] =
        [bones |-> @.bones \o bones, expressions |-> @.expressions \o expressions,
         visemes |-> @.visemes \o visemes, morphs |-> @.morphs \o morphs]]

\* LinkActor.set_template
set_template(w, actor, bones, expressions, visemes, morphs) ==
    [w EXCEPT !.template[actor] =
        [bones |-> bones, expressions |-> expressions, visemes |-> visemes,
         morphs |-> morphs]]

\* decode_character_templates, for each entry of "actors": an actor the
\* registry cannot resolve is logged and passed over.
RECURSIVE SetTemplates(_, _, _)
SetTemplates(w, entries, i) ==
    IF i > Len(entries) \/ w.exc # NoExc THEN w
    ELSE IF ~HasKey(entries[i], "link_id") \/ ~HasKey(entries[i], "name")
    THEN Raise(w, "KeyError")
    ELSE LET g == get_actor(w, Get(entries[i], "link_id"))
         IN  IF g.actor = NoActor THEN SetTemplates(g.w, entries, i + 1)
             ELSE IF \E k \in {"bones", "expressions", "visemes", "morphs"} :
                         ~HasKey(entries[i], k)
             THEN Raise(g.w, "KeyError")
             ELSE SetTemplates(
                      set_template(g.w, g.actor, Get(entries[i], "bones"),
                                   Get(entries[i], "expressions"),
                                   Get(entries[i], "visemes"),
                                   Get(entries[i], "morphs")),
                      entries, i + 1)

decode_character_templates(w, template_data) ==
    LET j == decode_to_json(template_data)
    IN  IF j.exc # NoExc THEN Raise(w, j.exc)
        ELSE IF ~HasKey(j.doc, "count") \/ ~HasKey(j.doc, "actors")
        THEN Raise(w, "KeyError")
        ELSE SetTemplates(w, Get(j.doc, "actors"), 1)

receive_character_template(w, data) == decode_character_templates(w, data)

\* send_sequence; sel is the selection, ok whether the writes succeed.
send_sequence(w, sel, ok) ==
    LET g == get_selected_actors(w, sel, 1, <<>>)
    IN  IF g.actors # <<>>
        THEN LET w1 == send_notify(g.w, "Animation Sequence", ok)
                 w2 == [w1 EXCEPT !.frame_current = w1.frame_start,
                                  !.sequence_current_frame = w1.frame_start]
                 w3 == send(w2, SEQUENCE, encode_sequence_data(w2, g.actors), ok)
                 w4 == send(w3, TEMPLATE, encode_character_templates(g.actors), ok)
             IN  start_sequence([w4 EXCEPT !.sequence_actors = g.actors],
                                "send_sequence_frame")
        ELSE g.w

send_sequence_end(w, ok) == send(w, SEQUENCE_END, NoData, ok)

\* send_sequence_frame; len(None) in encode_pose_data raises TypeError.
send_sequence_frame(w, ok) ==
    LET current_frame == w.sequence_current_frame
        w1 == ensure_current_frame(w, current_frame)
    IN  IF w1.sequence_actors = NoList THEN Raise(w1, "TypeError")
        ELSE LET w2 == send(w1, SEQUENCE_FRAME,
                            encode_pose_data(w1, w1.sequence_actors), ok)
             IN  IF current_frame >= w2.frame_end
                 THEN send_sequence_end(
                          stop_sequence([w2 EXCEPT !.sequence_actors = NoList]), ok)
                 ELSE next_frame(w2, current_frame)

\* Signal.emit of the sequence signal: the callbacks in the list, as the
\* list is while the loop over it runs.
RECURSIVE emit(_, _, _)
emit(w, i, ok) ==
    IF i > Len(w.callbacks) \/ w.exc # NoExc THEN w
    ELSE emit(send_sequence_frame(w, ok), i + 1, ok)

\* receive_sequence: the actors the registry has or can make are prepared.
RECURSIVE PrepareActors(_, _, _, _, _, _)
PrepareActors(w, ids, start_frame, end_frame, i, found) ==
    IF i > Len(ids) THEN [w |-> w, actors |-> found]
    ELSE LET g == get_actor(w, ids[i])
         IN  IF g.actor # NoActor
             THEN PrepareActors(prep_rig(g.w, g.actor, start_frame, end_frame),
                                ids, start_frame, end_frame, i + 1,
                                Append(found, g.actor))
             ELSE PrepareActors(g.w, ids, start_frame, end_frame, i + 1, found)

receive_sequence(w, data) ==
    LET j == decode_to_json(data)
    IN  IF j.exc # NoExc THEN Raise(w, j.exc)
        ELSE IF \E k \in {"start_frame", "end_frame", "actors"} : ~HasKey(j.doc, k)
        THEN Raise(w, "KeyError")
        ELSE LET start_frame == Get(j.doc, "start_frame")
                 end_frame == Get(j.doc, "end_frame")
                 g == PrepareActors(w, Get(j.doc, "actors"), start_frame,
                                    end_frame, 1, <<>>)
             IN  start_sequence(
                     [g.w EXCEPT !.sequence_start_frame = start_frame,
                                 !.sequence_actors = g.actors,
                                 !.received = {},
                                 !.frame_start = start_frame,
                                 !.frame_end = end_frame,
                                 !.frame_current = start_frame],
                     Null)

\* decode_pose_data, for each actor of the record: get_actor of a link id
\* the registry cannot resolve returns None, whose attribute is then read.
RECURSIVE DecodeActors(_, _, _, _)
DecodeActors(w, entries, frame, i) ==
    IF i > Len(entries) \/ w.exc # NoExc THEN w
    ELSE LET g == get_actor(w, entries[i].link_id)
         IN  IF g.actor = NoActor THEN Raise(g.w, "AttributeError")
             ELSE DecodeActors(
                      store_shape_key_cache_keyframes(
                          g.w, g.actor, frame,
                          [k \in DOMAIN g.w.template[g.actor].expressions |->
                              entries[i].sample],
                          [k \in DOMAIN g.w.template[g.actor].visemes |->
                              entries[i].sample]),
                      entries, frame, i + 1)

\* decode_pose_data: the frame of the record becomes the current frame of the
\* scene and of LINK_DATA.
decode_pose_data(w, data) ==
    LET frame == Get(data.doc, "frame")
    IN  DecodeActors([ensure_current_frame(w, frame) EXCEPT
                         !.sequence_current_frame = frame],
                     Get(data.doc, "actors"), frame, 1)

RECURSIVE StoreBones(_, _, _, _)
StoreBones(w, entries, frame, i) ==
    IF i > Len(entries) \/ w.exc # NoExc THEN w
    ELSE StoreBones(store_bone_cache_keyframes(w, entries[i].link_id, frame,
                                               entries[i].sample),
                    entries, frame, i + 1)

\* receive_sequence_frame; struct.unpack_from raises on None (TypeError) and
\* on bytes that are no pose record (struct.error).
receive_sequence_frame(w, data) ==
    IF data.fmt = "none" THEN Raise(w, "TypeError")
    ELSE IF data.fmt # "pose" THEN Raise(w, "struct.error")
    ELSE LET w0 == [w EXCEPT !.received = @ \cup { Get(data.doc, "frame") }]
             w1 == decode_pose_data(w0, data)
         IN  StoreBones(w1, Get(data.doc, "actors"), Get(data.doc, "frame"), 1)

RECURSIVE WriteActions(_, _, _)
WriteActions(w, ids, i) ==
    IF i > Len(ids) THEN w
    ELSE WriteActions(write_sequence_actions(w, ids[i]), ids, i + 1)

RECURSIVE GetActors(_, _, _)
GetActors(w, ids, i) ==
    IF i > Len(ids) THEN w ELSE GetActors(get_actor(w, ids[i]).w, ids, i + 1)

\* receive_sequence_end; a loop over sequence_actors of None raises TypeError.
receive_sequence_end(w, data) ==
    LET j == decode_to_json(data)
    IN  IF j.exc # NoExc THEN Raise(w, j.exc)
        ELSE IF ~HasKey(j.doc, "actors") THEN Raise(w, "KeyError")
        ELSE LET w1 == GetActors(w, Get(j.doc, "actors"), 1)
             IN  IF w1.sequence_actors = NoList THEN Raise(w1, "TypeError")
                 ELSE [stop_sequence(WriteActions(w1, w1.sequence_actors, 1))
                          EXCEPT !.sequence_actors = NoList,
                                 !.received = {},
                                 !.frame_current = w1.sequence_start_frame]

\* A parse() that treats an opcode it has no branch for as the end of the
\* session: the variant against which the fall-through is checked.
parse_strict(w, op, data, ok) ==
    LET w1 == [w EXCEPT !.keepalive_timer = KEEPALIVE_TIMEOUT_S, !.resets = @ + 1]
    IN  CASE op = HELLO -> parse_hello(w1, data, ok)
          [] op = PING -> w1
          [] op = STOP -> service_stop(w1, ok)
          [] op = DISCONNECT -> service_disconnect(w1, ok)
          [] op = NOTIFY -> receive_notify(w1, data)
          [] op \notin HandledOps -> service_disconnect(w1, ok)

\* parse, lines 874-944: the elif chain over the opcode.  An opcode with no
\* branch falls through it.
Branch(w, op, data, ok) ==
    CASE op = HELLO -> parse_hello(w, data, ok)
      [] op = PING -> w
      [] op = STOP -> service_stop(w, ok)
      [] op = DISCONNECT -> service_disconnect(w, ok)
      [] op = NOTIFY -> receive_notify(w, data)
      [] op = TEMPLATE -> receive_character_template(w, data)
      [] op = SEQUENCE -> receive_sequence(w, data)
      [] op = SEQUENCE_FRAME -> receive_sequence_frame(w, data)
      [] op = SEQUENCE_END -> receive_sequence_end(w, data)
      [] op \notin HandledOps -> w

\* parse, line 872: the keepalive countdown starts again.
ResetKeepalive(w) ==
    [w EXCEPT !.keepalive_timer = KEEPALIVE_TIMEOUT_S, !.resets = @ + 1]

\* A parse() that resets the countdown after the handler, when the handler
\* has returned: the variant against which the reset is checked.
parse_reset_after(w, op, data, ok) ==
    LET w1 == Branch(w, op, data, ok)
    IN  IF w1.exc = NoExc THEN ResetKeepalive(w1) ELSE w1

\* parse(op_code, data); ok is whether a send() the handler makes succeeds.
parse(w, op, data, ok) == Branch(ResetKeepalive(w), op, data, ok)

-----------------------------------------------------------------------------
\* One tick of loop(), in steps

\* The handler returns.  What it did stays to be seen in this state; the
\* locals and the observation are dropped by the step that follows.
Return(w) == [w EXCEPT !.pc = "done"]

\* loop() returns None: bpy.app.timers drops the timer.
ReturnNone(w) == [Return(w) EXCEPT !.registered = FALSE]

\* An exception leaves loop(): bpy.app.timers drops a timer whose function
\* raised; self.timer is not touched.
Abort(w) == [Return(w) EXCEPT !.registered = FALSE]

\* select() on the peer socket: there are bytes, or the end of the stream.
Readable(w) == w.inq # <<>> \/ w.peer_closed

\* loop(), lines 994-1022: the countdowns.  dt is the time since the last tick.
\* A link that is neither connected nor listening (a client that is still
\* connecting) is in neither branch.
loop_begin(w, dt, ok) ==
    IF ~w.timer THEN ReturnNone(w)
    ELSE LET w0 == [w EXCEPT !.delta_time = dt]
         IN  IF w0.is_connected \/ w0.is_listening
             THEN LET w1 == [w0 EXCEPT !.keepalive_timer = @ - dt]
                  IN  IF w1.use_keepalive /\ w1.keepalive_timer <= 0
                      THEN ReturnNone(service_stop(w1, ok))
                      ELSE [w1 EXCEPT !.pc = "accept"]
             ELSE [w0 EXCEPT !.pc = "accept"]

\* accept(), lines 848-850: the guard and the first select().
accept_enter(w) ==
    IF w.server_sock # NoSock /\ w.is_listening /\ w.pending > 0
    THEN [w EXCEPT !.pc = "accept_loop"]
    ELSE [w EXCEPT !.pc = "recv"]

\* accept() returns to loop(): its local `sock` goes.
accept_return(w) == [w EXCEPT !.sock = NoSock, !.os_open = Held(w), !.pc = "recv"]

\* accept(), lines 851-856: server_sock.accept(); taken is whether it
\* succeeds.  The socket it returns is open, and so is the peer socket the
\* service already has.
accept_take(w, taken) ==
    IF ~taken THEN accept_return(service_lost(w))
    ELSE LET s == NewSock(w)
         IN  [w EXCEPT !.pending = @ - 1, !.sock = s, !.os_open = @ \cup {s},
                       !.pc = "accept_install"]

\* accept(), lines 857-869: the accepted socket is assigned and the HELLO
\* sent; ok is whether the HELLO is written, posix whether select() of no
\* sockets at all returns (it raises OSError where select is winsock's).
accept_install(w, ok, posix) ==
    LET w1 == send_hello(Install(w, w.sock), ok)
    IN  IF w1.server_sock = NoSock
        THEN IF posix THEN accept_return(w1)
             ELSE Abort(Raise(w1, "OSError"))
        ELSE IF w1.pending > 0 THEN [w1 EXCEPT !.pc = "accept_loop"]
             ELSE accept_return(w1)

\* recv() returns to loop(): its local `r` goes.
recv_return(w) == [w EXCEPT !.os_open = Held(w), !.pc = "sequence"]

\* recv(), lines 797-805; sel is whether select() succeeds.  When it raises,
\* `r` was never assigned and `while r` raises UnboundLocalError.
recv_begin(w, sel) ==
    LET w1 == [w EXCEPT !.is_data = FALSE, !.inq0 = w.inq]
    IN  IF has_client_sock(w1)
        THEN IF ~sel
             THEN Abort(Raise(service_lost([w1 EXCEPT !.io = "sel_err"]),
                              "UnboundLocalError"))
             ELSE IF Readable(w1) THEN [w1 EXCEPT !.count = 0, !.pc = "recv_loop"]
             ELSE recv_return([w1 EXCEPT !.count = 0])
        ELSE recv_return(w1)

\* recv(), lines 830-832: the dispatch of one message.
Dispatch(w, data, ok) ==
    LET w1 == parse(w, w.op_code, data, ok)
    IN  IF w1.exc # NoExc THEN Abort(w1)
        ELSE [w1 EXCEPT !.count = @ + 1, !.pc = "recv_tail"]

\* What data.extend(chunk) builds when recv(chunk_size) raised: `chunk` keeps
\* the bytes of an earlier read, which are appended until size runs out.
StaleData(w) ==
    IF ByteLen(w.chunk) >= ByteLen(w.header.data) THEN w.chunk ELSE Garbage

\* recv(), lines 812-832, once `header` holds what line 808 left in it.
\* b'' == 0 is false; a header of fewer than 8 bytes is dropped.
recv_header(w, rd, ok) ==
    IF w.header.wire = "unbound" THEN Abort(Raise(w, "UnboundLocalError"))
    ELSE IF w.header.wire \in {"eof", "short"} THEN [w EXCEPT !.pc = "recv_tail"]
    ELSE LET w1 == [w EXCEPT !.op_code = w.header.op]
         IN  IF ByteLen(w.header.data) = 0 THEN Dispatch(w1, NoData, ok)
             ELSE IF rd = "chunk_err" \/ w1.client_sock = NoSock
             THEN LET w2 == service_lost([w1 EXCEPT !.io = "chunk_err"])
                  IN  IF w2.chunk = UnboundChunk
                      THEN Abort(Raise(w2, "UnboundLocalError"))
                      ELSE IF ByteLen(w2.chunk) = 0
                      THEN [w2 EXCEPT !.pc = "recv_extend"]
                      ELSE Dispatch(w2, StaleData(w2), ok)
             ELSE IF w.header.wire = "nopayload"
             THEN [w1 EXCEPT !.chunk = ZeroChunk, !.pc = "recv_extend"]
             ELSE Dispatch([w1 EXCEPT !.chunk = w.header.data], w.header.data, ok)

\* recv(), lines 806-832: one pass of `while r` up to the dispatch.  rd is
\* what the reads do: "ok", "hdr_err" (recv(8) raises) or "chunk_err"
\* (recv(chunk_size) raises).  A read on no socket raises AttributeError, a
\* read with nothing to read times out.
recv_read(w, rd, ok) ==
    LET w0 == [w EXCEPT !.op_code = OpNone, !.io = "ok"]
    IN  IF rd = "hdr_err" \/ w0.client_sock = NoSock \/ ~Readable(w0)
        THEN recv_header(service_lost([w0 EXCEPT !.io = "hdr_err"]), rd, ok)
        ELSE IF w0.inq = <<>>
        THEN recv_header([w0 EXCEPT !.header = EofHeader], rd, ok)
        ELSE recv_header([w0 EXCEPT !.header = Head(w0.inq), !.inq = Tail(@)], rd, ok)

\* recv(), lines 828-829, when the read before it left no bytes in `chunk`:
\* data.extend(chunk) adds nothing, size stays and `while size > 0` reads
\* again.
recv_extend(w, ok) ==
    IF ByteLen(w.chunk) = 0 THEN [w EXCEPT !.pc = "recv_chunk"]
    ELSE Dispatch(w, StaleData(w), ok)

\* recv(), lines 821-827: the read of the next chunk of a payload whose bytes
\* never come.  rd is "ok" (the stream has ended: b'') or "chunk_err".
recv_chunk(w, rd) ==
    IF rd = "chunk_err" \/ w.client_sock = NoSock
    THEN [service_lost([w EXCEPT !.io = "chunk_err"]) EXCEPT !.pc = "recv_extend"]
    ELSE [w EXCEPT !.chunk = ZeroChunk, !.io = "ok", !.pc = "recv_extend"]

\* A recv() whose tail tests `count > MAX_RECEIVE`: the variant against
\* which the cap is checked.
recv_tail_late_cap(w, sel) ==
    LET w1 == [w EXCEPT !.is_data = FALSE]
    IN  IF ~has_client_sock(w1) THEN recv_return(w1)
        ELSE LET w2 == IF sel THEN w1
                       ELSE service_lost([w1 EXCEPT !.io = "sel_err"])
             IN  IF ~sel \/ Readable(w1)
                 THEN IF w2.count > MAX_RECEIVE \/ w2.op_code = NOTIFY
                      THEN recv_return([w2 EXCEPT !.is_data = TRUE])
                      ELSE [w2 EXCEPT !.is_data = TRUE, !.pc = "recv_loop"]
                 ELSE recv_return(w2)

\* A recv() whose tail tests the count only: the variant against which the
\* return after a NOTIFY is checked.
recv_tail_count_only(w, sel) ==
    LET w1 == [w EXCEPT !.is_data = FALSE]
    IN  IF ~has_client_sock(w1) THEN recv_return(w1)
        ELSE LET w2 == IF sel THEN w1
                       ELSE service_lost([w1 EXCEPT !.io = "sel_err"])
             IN  IF ~sel \/ Readable(w1)
                 THEN IF w2.count >= MAX_RECEIVE
                      THEN recv_return([w2 EXCEPT !.is_data = TRUE])
                      ELSE [w2 EXCEPT !.is_data = TRUE, !.pc = "recv_loop"]
                 ELSE recv_return(w2)

\* recv(), lines 833-845; sel is whether the second select() succeeds.  When
\* it raises, `r` keeps the non-empty list that let the loop run.
recv_tail(w, sel) ==
    LET w1 == [w EXCEPT !.is_data = FALSE]
    IN  IF ~has_client_sock(w1) THEN recv_return(w1)
        ELSE LET w2 == IF sel THEN w1
                       ELSE service_lost([w1 EXCEPT !.io = "sel_err"])
             IN  IF ~sel \/ Readable(w1)
                 THEN IF w2.count >= MAX_RECEIVE \/ w2.op_code = NOTIFY
                      THEN recv_return([w2 EXCEPT !.is_data = TRUE])
                      ELSE [w2 EXCEPT !.is_data = TRUE, !.pc = "recv_loop"]
                 ELSE recv_return(w2)

\* loop(), lines 1031-1033: sequence.emit() and the return of the delay; ok
\* is whether the writes of the callbacks succeed.
loop_end_data_only(w, ok) ==
    LET w1 == emit(w, 1, ok)
    IN  IF w1.exc # NoExc THEN Abort(w1)
        ELSE [Return(w1) EXCEPT
                 !.delay = IF w1.is_data THEN 0 ELSE TIMER_INTERVAL]

loop_end(w, ok) ==
    LET w1 == emit(w, 1, ok)
    IN  IF w1.exc # NoExc THEN Abort(w1)
        ELSE [Return(w1) EXCEPT
                 !.delay = IF w1.is_data \/ w1.is_sequence
                           THEN 0 ELSE TIMER_INTERVAL]

-----------------------------------------------------------------------------
\* Actions

TypeOK ==
    /\ timer \in BOOLEAN /\ registered \in BOOLEAN
    /\ server_sock \in {NoSock, ServerSock}
    /\ client_sock \in {NoSock} \cup PeerSocks
    /\ is_listening \in BOOLEAN /\ is_connected \in BOOLEAN
    /\ is_connecting \in BOOLEAN /\ is_data \in BOOLEAN
    /\ delay \in {NoDelay, 0, TIMER_INTERVAL}
    /\ ret \in {Null, "True", "False"}
    /\ released \subseteq PeerSocks
    /\ registry \in Seq([chr : Chrs, link_id : Ids]) /\ Len(registry) <= MaxChars
    /\ scene \in [Chrs -> Ids]
    /\ codec.stage \in {"none", "packed", "cut", "unpacked", "unpacked_cut"}
    /\ codec.str \in Strings
    /\ pose.stage \in {"none", "encoded", "decoded"}
    /\ pose.actors \in PoseActors
    /\ os_open \subseteq PeerSocks
    /\ pending \in 0..(MaxPending + MaxBurst)
    /\ count \in 0..MAX_RECEIVE
    /\ lost_emits \in 0..MaxLost
    /\ connected_emits \in 0..MaxLost
    /\ resets \in 0..(MAX_RECEIVE + 1)
    /\ use_keepalive \in BOOLEAN
    /\ is_sequence \in BOOLEAN
    /\ Len(callbacks) <= MaxCallbacks /\ Len(seq_log) <= MaxLog
    /\ \A i \in DOMAIN actors : actors[i] \in Characters
    /\ sequence_actors = NoList \/ \A i \in DOMAIN sequence_actors :
                                       sequence_actors[i] \in Characters
    /\ frame_start \in Frames /\ frame_end \in Frames
    /\ frame_current \in {0} \cup Frames
    /\ sequence_current_frame \in {0} \cup Frames
    /\ sequence_start_frame \in {0} \cup Frames
    /\ \A a \in Characters :
           /\ template[a] \in Templates
           /\ cache[a].none \/ \A i \in DOMAIN cache[a].expr :
                                    Len(cache[a].expr[i]) = Len(cache[a].rot)
    /\ received \subseteq Frames
    /\ handler \in {"none", "loop", "service_start", "service_stop", "service_disconnect",
                    "start_server", "stop_server", "try_start_client", "stop_client",
                    "send_sequence", "get_actor", "add_actor",
                    "receive_character_update", "reset"}
    /\ delta_time \in 0..KEEPALIVE_TIMEOUT_S
    /\ io \in {"none", "ok", "hdr_err", "chunk_err", "sel_err"}
    /\ sock \in {NoSock} \cup PeerSocks
    /\ pc \in {"idle", "accept", "accept_loop", "accept_install", "recv", "recv_loop",
               "recv_chunk", "recv_extend", "recv_tail", "sequence", "done"}

\* The state after LinkService(); switch is the keepalive switch of the build.
InitWith(switch) ==
    /\ timer = FALSE /\ registered = FALSE
    /\ server_sock = NoSock /\ client_sock = NoSock
    /\ is_listening = FALSE /\ is_connected = FALSE /\ is_connecting = FALSE
    /\ keepalive_timer = 0 /\ is_data = FALSE
    /\ remote_app = Null /\ remote_version = Null
    /\ remote_path = Null /\ remote_exe = Null
    /\ os_open = {} /\ inq = <<>> /\ peer_closed = FALSE /\ pending = 0
    /\ pc = "idle" /\ header = UnboundHeader /\ chunk = UnboundChunk
    /\ op_code = OpNone /\ count = 0 /\ io = "none" /\ sock = NoSock
    /\ outbox = <<>> /\ lost_emits = 0 /\ exc = NoExc /\ inq0 = <<>>
    /\ resets = 0
    /\ use_keepalive = switch
    /\ delta_time = 0
    /\ handler = "none"
    /\ actors = <<>>
    /\ sequence_actors = NoList
    /\ sequence_current_frame = 0
    /\ sequence_start_frame = 0
    /\ cache = [a \in Characters |-> NoCache]
    /\ is_sequence = FALSE
    /\ callbacks = <<>>
    /\ frame_start = 1
    /\ frame_end = MaxFrame
    /\ frame_current = 1
    /\ seq_log = <<>>
    /\ template = [a \in Characters |-> NoTemplate]
    /\ action = [a \in Characters |-> NoAction]
    /\ received = {}
    /\ delay = NoDelay
    /\ ret = Null
    /\ released = {}
    /\ registry = <<>>
    /\ scene = [c \in Chrs |-> c]
    /\ codec = NoCodec
    /\ pose = NoPose
    /\ connected_emits = 0

Init == InitWith(USE_KEEPALIVE)

\* Operator calls (CCICDataLink.execute) and direct calls of the methods

ServiceStart ==
    /\ pc = "idle"
    /\ \E reached \in BOOLEAN, ok \in BOOLEAN, bound \in BOOLEAN :
           Commit(Return(service_start(Begin(W, "service_start"), reached, ok, bound)))

ServiceStop ==
    /\ pc = "idle"
    /\ \E ok \in BOOLEAN : Commit(Return(service_stop(Begin(W, "service_stop"), ok)))

ServiceDisconnect ==
    /\ pc = "idle"
    /\ \E ok \in BOOLEAN : Commit(Return(service_disconnect(Begin(W, "service_disconnect"), ok)))

StartServer ==
    /\ pc = "idle"
    /\ \E bound \in BOOLEAN : Commit(Return(start_server(Begin(W, "start_server"), bound)))

StopServer ==
    /\ pc = "idle"
    /\ Commit(Return(stop_server(Begin(W, "stop_server"))))

TryStartClient ==
    /\ pc = "idle"
    /\ \E reached \in BOOLEAN, ok \in BOOLEAN :
           \E t \in { try_start_client(Begin(W, "try_start_client"), reached, ok) } :
               Commit([Return(t.w) EXCEPT !.ret = IF t.ret THEN "True" ELSE "False"])

StopClient ==
    /\ pc = "idle"
    /\ Commit(Return(stop_client(Begin(W, "stop_client"))))

\* The selections the operator can find: the characters in their order, any
\* of them left out.
RECURSIVE Ascending(_)
Ascending(S) ==
    IF S = {} THEN <<>>
    ELSE LET m == CHOOSE x \in S : \A y \in S : x <= y
         IN  << m >> \o Ascending(S \ {m})

Selections == { Ascending(S) : S \in SUBSET Characters }

\* The operator SEND_ANIM.
SendSequence ==
    /\ pc = "idle" /\ Len(callbacks) < MaxCallbacks
    /\ \E sel \in Selections, ok \in BOOLEAN :
           Commit(Return(send_sequence(Begin(W, "send_sequence"), sel, ok)))

\* The user sets the frame range of the scene, while no sequence runs.
SetFrameRange ==
    /\ pc = "idle" /\ ~is_sequence
    /\ \E s \in Frames, e \in Frames :
           /\ s <= e /\ << s, e >> # << frame_start, frame_end >>
           /\ Commit([W EXCEPT !.frame_start = s, !.frame_end = e])

\* The tick

\* The time a tick finds elapsed since the last one: next to none, or what
\* was left of the countdown.
Elapsed == {0} \cup (IF keepalive_timer > 0 THEN {keepalive_timer} ELSE {})

LoopBegin ==
    /\ pc = "idle" /\ registered
    /\ \E dt \in Elapsed, ok \in BOOLEAN :
           Commit(loop_begin(Begin(W, "loop"), dt, ok))

AcceptEnter == pc = "accept" /\ Commit(accept_enter(W))

AcceptTake ==
    /\ pc = "accept_loop"
    /\ \E taken \in BOOLEAN : Commit(accept_take(W, taken))

AcceptInstall ==
    /\ pc = "accept_install"
    /\ \E ok \in BOOLEAN, posix \in BOOLEAN : Commit(accept_install(W, ok, posix))

RecvBegin ==
    /\ pc = "recv"
    /\ \E sel \in BOOLEAN : Commit(recv_begin(W, sel))

RecvRead ==
    /\ pc = "recv_loop"
    /\ \E rd \in {"ok", "hdr_err", "chunk_err"}, ok \in BOOLEAN :
           Commit(recv_read(W, rd, ok))

RecvChunk ==
    /\ pc = "recv_chunk"
    /\ \E rd \in {"ok", "chunk_err"} : Commit(recv_chunk(W, rd))

RecvExtend ==
    /\ pc = "recv_extend"
    /\ \E ok \in BOOLEAN : Commit(recv_extend(W, ok))

RecvTail ==
    /\ pc = "recv_tail"
    /\ \E sel \in BOOLEAN : Commit(recv_tail(W, sel))

LoopEnd ==
    /\ pc = "sequence"
    /\ \E ok \in BOOLEAN : Commit(loop_end(W, ok))

\* After a handler has returned: its locals and the observation of it go,
\* and the interpreter has reclaimed (and so closed) the socket objects that
\* nothing refers to any more.
Settle ==
    /\ pc = "done"
    /\ Commit([ClearLocals(Fresh(W)) EXCEPT
                  !.pc = "idle",
                  !.seq_log = IF @ # <<>> /\ @[Len(@)].op = SEQUENCE_END
                              THEN <<>> ELSE @,
                  !.client_sock = IF @ = NoSock THEN NoSock ELSE FirstSock,
                  !.os_open = IF client_sock = NoSock THEN {} ELSE {FirstSock}])

\* The peer and the interpreter, between handlers

PeerSend ==
    /\ pc = "idle" /\ client_sock # NoSock /\ ~peer_closed
    /\ Len(inq) < MaxQueue
    /\ \E item \in (IF inq = <<>> THEN PeerItems ELSE FollowItems) :
           Commit([W EXCEPT !.inq = Append(@, item)])

\* The peer closes its end (close() or exit): the stream ends after what is
\* queued.
PeerClose ==
    /\ pc = "idle" /\ client_sock # NoSock /\ ~peer_closed
    /\ Commit([W EXCEPT !.peer_closed = TRUE])

\* The peer dies after the header of a message, before its payload.
PeerAbandon ==
    /\ pc = "idle" /\ client_sock # NoSock /\ ~peer_closed
    /\ Len(inq) < MaxQueue
    /\ Commit([W EXCEPT
                  !.inq = Append(@, Truncated(NOTIFY, encode_from_json(NotifyConnected))),
                  !.peer_closed = TRUE])

\* A peer connects to the listening socket.
PeerConnect ==
    /\ pc = "idle" /\ server_sock # NoSock /\ pending < MaxPending
    /\ Commit([W EXCEPT !.pending = @ + 1])

\* Several peers connect to the listening socket between two ticks.
PeerBurst ==
    /\ pc = "idle" /\ server_sock # NoSock /\ pending = 0
    /\ \E n \in 1..MaxBurst : Commit([W EXCEPT !.pending = n])

\* A server and the peers that connect to it.
NextAccept ==
    \/ StartServer \/ ServiceStart \/ ServiceStop
    \/ PeerBurst
    \/ LoopBegin \/ AcceptEnter \/ AcceptTake \/ AcceptInstall
    \/ RecvBegin \/ LoopEnd
    \/ Settle

SpecAccept == Init /\ [][NextAccept]_vars

\* A peer floods the link: behind an unread item it queues plain messages,
\* more than one call of recv() takes.
CapItems ==
    { Msg(PING, NoData), Msg(PROP_UPDATE, NoData), Msg(STOP, NoData),
      Msg(HELLO, encode_from_json(HelloCC)),
      Msg(NOTIFY, encode_from_json(NotifyConnected)), ShortHeader }

PeerFlood ==
    /\ pc = "idle" /\ client_sock # NoSock /\ ~peer_closed
    /\ Len(inq) < MAX_RECEIVE + MaxExtra
    /\ \E item \in (IF inq = <<>> THEN CapItems ELSE FollowItems) :
           Commit([W EXCEPT !.inq = Append(@, item)])

\* A peer that streams sequences: its handshake, the messages of a sequence
\* for all the characters of the scene, and its STOP.
SeqItems ==
    { Msg(HELLO, encode_from_json(HelloCC)), Msg(STOP, NoData),
      Msg(SEQUENCE_END, NoData),
      Msg(SEQUENCE_END, encode_from_json({ <<"actors", Ascending(Characters)>> })) }
    \cup { Msg(SEQUENCE, encode_from_json(SequenceDoc(s, e, Ascending(Characters)))) :
               s \in Frames, e \in Frames }
    \cup { Msg(TEMPLATE, encode_from_json(TemplateDoc(
               [i \in 1..MaxActors |-> TemplateEntry(i, t)]))) : t \in Templates }
    \cup { Msg(SEQUENCE_FRAME,
               PoseRecord(f, [i \in 1..MaxActors |-> [link_id |-> i, sample |-> v]])) :
               f \in Frames, v \in Samples }

PeerSeqSend ==
    /\ pc = "idle" /\ client_sock # NoSock /\ ~peer_closed /\ inq = <<>>
    /\ \E item \in SeqItems :
           /\ item.op = SEQUENCE =>
                  Get(item.data.doc, "start_frame") <= Get(item.data.doc, "end_frame")
           /\ Commit([W EXCEPT !.inq = Append(@, item)])

\* A peer whose scene has a character this scene has not: its templates and
\* its frames list the stranger before or after the characters of the scene.
WithStranger == { << Stranger >> \o Ascending(Characters),
                  Ascending(Characters) \o << Stranger >> }

StrangerItems ==
    { Msg(HELLO, encode_from_json(HelloCC)) }
    \cup { Msg(SEQUENCE, encode_from_json(SequenceDoc(1, MaxFrame, Ascending(Characters)))) }
    \cup { Msg(TEMPLATE, encode_from_json(TemplateDoc(
               [i \in DOMAIN ids |-> TemplateEntry(ids[i], t)]))) :
               ids \in WithStranger, t \in Templates }
    \cup { Msg(SEQUENCE_FRAME,
               PoseRecord(f, [i \in DOMAIN ids |-> [link_id |-> ids[i], sample |-> v]])) :
               ids \in WithStranger, f \in Frames, v \in Samples }

PeerStrangerSend ==
    /\ pc = "idle" /\ client_sock # NoSock /\ ~peer_closed /\ inq = <<>>
    /\ \E item \in StrangerItems : Commit([W EXCEPT !.inq = Append(@, item)])

\* A peer that streams frames and never ends a session: its handshake, the
\* template of the face, a session over any range, opened while none is
\* open, and frames in any order.
FrameItems ==
    { Msg(HELLO, encode_from_json(HelloCC)),
      Msg(TEMPLATE, encode_from_json(TemplateDoc(
          [i \in 1..MaxActors |-> TemplateEntry(i, FaceTemplate)]))) }
    \cup { Msg(SEQUENCE, encode_from_json(SequenceDoc(s, e, Ascending(Characters)))) :
               s \in Frames, e \in Frames }
    \cup { Msg(SEQUENCE_FRAME,
               PoseRecord(f, [i \in 1..MaxActors |-> [link_id |-> i, sample |-> v]])) :
               f \in Frames, v \in Samples }

PeerFrameSend ==
    /\ pc = "idle" /\ client_sock # NoSock /\ ~peer_closed /\ inq = <<>>
    /\ \E item \in FrameItems :
           /\ item.op = SEQUENCE =>
                  /\ ~is_sequence
                  /\ Get(item.data.doc, "start_frame") <= Get(item.data.doc, "end_frame")
           /\ Commit([W EXCEPT !.inq = Append(@, item)])

\* A peer that opens a session and ends it without a frame in between, and
\* sends its templates, any of them twice in a row.
QuietItems ==
    { Msg(HELLO, encode_from_json(HelloCC)),
      Msg(SEQUENCE, encode_from_json(SequenceDoc(1, MaxFrame, Ascending(Characters)))),
      Msg(SEQUENCE_END, encode_from_json({ <<"actors", Ascending(Characters)>> })) }
    \cup { Msg(TEMPLATE, encode_from_json(TemplateDoc(
               [i \in DOMAIN ids |-> TemplateEntry(ids[i], t)]))) :
               ids \in WithStranger, t \in Templates }

PeerQuietSend ==
    /\ pc = "idle" /\ client_sock # NoSock /\ ~peer_closed
    /\ \E item \in QuietItems :
           /\ \/ inq = <<>>
              \/ Len(inq) = 1 /\ item.op = TEMPLATE /\ item = inq[1]
           /\ Commit([W EXCEPT !.inq = Append(@, item)])

\* The peer of a client that is sending a sequence: its handshake, and a
\* sequence of its own over the whole of the frames, with no actor in it.
SendItems ==
    { Msg(HELLO, encode_from_json(HelloCC)),
      Msg(SEQUENCE, encode_from_json(SequenceDoc(1, MaxFrame, <<>>))) }
    \cup { Msg(SEQUENCE_FRAME, PoseRecord(f, <<>>)) : f \in Frames }

PeerInterfere ==
    /\ pc = "idle" /\ client_sock # NoSock /\ ~peer_closed /\ inq = <<>>
    /\ \E item \in SendItems : Commit([W EXCEPT !.inq = Append(@, item)])

Tick ==
    \/ LoopBegin \/ AcceptEnter \/ AcceptTake \/ AcceptInstall \/ RecvBegin \/ RecvRead
    \/ RecvChunk \/ RecvExtend \/ RecvTail \/ LoopEnd

Next ==
    \/ ServiceStart \/ ServiceStop \/ ServiceDisconnect
    \/ StartServer \/ StopServer \/ TryStartClient \/ StopClient
    \/ Tick \/ Settle
    \/ PeerSend \/ PeerClose \/ PeerAbandon \/ PeerConnect

Spec == Init /\ [][Next]_vars

\* The service built with USE_KEEPALIVE = True.
InitKeepalive == InitWith(TRUE)

SpecKeepalive == InitKeepalive /\ [][Next]_vars

\* The service as the add-on runs it (CLIENT_ONLY: it never listens).  A
\* handler that has started keeps running: the interpreter executes the tick
\* to its end before anything else happens.
NextClient ==
    \/ ServiceStart \/ ServiceStop
    \/ LoopBegin \/ AcceptEnter \/ RecvBegin \/ RecvRead \/ RecvChunk
    \/ RecvExtend \/ RecvTail \/ LoopEnd
    \/ Settle
    \/ PeerSend \/ PeerClose \/ PeerAbandon

FairSpec == Init /\ [][NextClient]_vars /\ WF_vars(Tick \/ Settle)

\* A client that sends sequences, to a peer that may send one itself.
NextSend ==
    \/ ServiceStart \/ ServiceStop
    \/ SendSequence \/ SetFrameRange
    \/ LoopBegin \/ AcceptEnter \/ RecvBegin \/ RecvRead \/ RecvTail \/ LoopEnd
    \/ Settle
    \/ PeerInterfere

SpecSend == Init /\ [][NextSend]_vars

\* The same with the timer running. The user starts the service when the
\* link is closed and sends a sequence when no session is open and the send
\* connects its callback, so that no run is made of the user's steps alone;
\* a tick that can take a step takes it.
StartWhenClosed ==
    /\ client_sock = NoSock /\ ~is_connected /\ ~is_connecting
    /\ ServiceStart

StartSending == ~is_sequence /\ SendSequence /\ callbacks' # callbacks

NextStream ==
    \/ StartWhenClosed \/ ServiceStop
    \/ StartSending \/ SetFrameRange
    \/ LoopBegin \/ AcceptEnter \/ RecvBegin \/ RecvRead \/ RecvTail \/ LoopEnd
    \/ Settle
    \/ PeerInterfere

FairSpecSend == Init /\ [][NextStream]_vars /\ WF_vars(Tick \/ Settle)

\* A client that receives sequences.
NextRecv ==
    \/ ServiceStart \/ ServiceStop
    \/ LoopBegin \/ AcceptEnter \/ RecvBegin \/ RecvRead \/ RecvTail \/ LoopEnd
    \/ Settle
    \/ PeerSeqSend

SpecRecv == Init /\ [][NextRecv]_vars

\* A client whose peer has a character more.
NextStranger ==
    \/ ServiceStart \/ ServiceStop
    \/ LoopBegin \/ AcceptEnter \/ RecvBegin \/ RecvRead \/ RecvTail \/ LoopEnd
    \/ Settle
    \/ PeerStrangerSend

SpecStranger == Init /\ [][NextStranger]_vars

\* A client whose peer streams frames.
NextFrames ==
    \/ ServiceStart
    \/ LoopBegin \/ AcceptEnter \/ RecvBegin \/ RecvRead \/ RecvTail \/ LoopEnd
    \/ Settle
    \/ PeerFrameSend

SpecFrames == Init /\ [][NextFrames]_vars

\* A client whose peer sends no frame.
NextQuiet ==
    \/ ServiceStart \/ ServiceStop
    \/ LoopBegin \/ AcceptEnter \/ RecvBegin \/ RecvRead \/ RecvTail \/ LoopEnd
    \/ Settle
    \/ PeerQuietSend

SpecQuiet == Init /\ [][NextQuiet]_vars

\* The registry of actors on its own: lookups, character updates and resets
\* in any order.
GetActor ==
    /\ pc = "idle"
    /\ \E id \in Ids : Commit(Return(get_registered(Begin(W, "get_actor"), id).w))

AddActor ==
    /\ pc = "idle"
    /\ \E c \in Chrs : Commit(Return(add_actor(Begin(W, "add_actor"), c)))

CharacterUpdate ==
    /\ pc = "idle"
    /\ \E old \in Ids, new \in Ids :
           Commit(Return(receive_character_update(
                             Begin(W, "receive_character_update"), old, new)))

ResetData ==
    /\ pc = "idle"
    /\ Commit(Return([Begin(W, "reset") EXCEPT !.registry = <<>>]))

NextRegistry == GetActor \/ AddActor \/ CharacterUpdate \/ ResetData \/ Settle

SpecRegistry == Init /\ [][NextRegistry]_vars

\* Strings through the codec: a string is packed, the buffer may lose bytes
\* at its end, and is unpacked from offset 0.
PackString ==
    /\ pc = "idle" /\ codec.stage = "none"
    /\ \E str \in Strings :
           Commit([W EXCEPT !.codec = [NoCodec EXCEPT !.stage = "packed", !.str = str,
                                                    !.buffer = pack_string(str)]])

CutBuffer ==
    /\ pc = "idle" /\ codec.stage = "packed"
    /\ \E n \in 1..Len(codec.buffer) :
           Commit([W EXCEPT !.codec.stage = "cut",
                            !.codec.buffer = SubSeq(@, 1, Len(@) - n)])

UnpackString ==
    /\ pc = "idle" /\ codec.stage \in {"packed", "cut"}
    /\ \E u \in { unpack_string(codec.buffer, 0) } :
           Commit([W EXCEPT !.codec.stage = IF @ = "packed" THEN "unpacked"
                                           ELSE "unpacked_cut",
                            !.codec.exc = u.exc, !.codec.offset = u.offset,
                            !.codec.out = u.str])

ForgetString ==
    /\ pc = "idle" /\ codec.stage \in {"unpacked", "unpacked_cut"}
    /\ Commit([W EXCEPT !.codec = NoCodec])

\* The template of the actors of the record under way.
PoseTemplate ==
    IF pose.actors = <<>> THEN [bones |-> 0, expressions |-> 0, visemes |-> 0]
    ELSE pose.actors[1].tmpl

\* This program encodes the pose of its actors.
EncodePose ==
    /\ pc = "idle" /\ pose.stage = "none"
    /\ \E posed \in PoseActors, frame \in Frames :
           Commit([W EXCEPT !.pose = [NoPose EXCEPT
                       !.stage = "encoded", !.by = "encode_pose_data",
                       !.actors = posed, !.frame = frame,
                       !.data = encode_pose_bytes(posed, frame)]])

\* The peer encodes a pose in the layout of the decoder.
PeerEncodePose ==
    /\ pc = "idle" /\ pose.stage = "none"
    /\ \E posed \in PoseActors, frame \in Frames :
           Commit([W EXCEPT !.pose = [NoPose EXCEPT
                       !.stage = "encoded", !.by = "peer",
                       !.actors = posed, !.frame = frame,
                       !.data = peer_pose_bytes(posed, frame)]])

DecodePose ==
    /\ pc = "idle" /\ pose.stage = "encoded"
    /\ Commit([W EXCEPT !.pose.stage = "decoded",
                        !.pose.decoded = decode_pose_bytes(pose.data, PoseTemplate)])

ForgetPose ==
    /\ pc = "idle" /\ pose.stage = "decoded"
    /\ Commit([W EXCEPT !.pose = NoPose])

NextPose == EncodePose \/ PeerEncodePose \/ DecodePose \/ ForgetPose

SpecPose == Init /\ [][NextPose]_vars

NextStrings == PackString \/ CutBuffer \/ UnpackString \/ ForgetString

SpecStrings == Init /\ [][NextStrings]_vars

\* A client whose peer floods it.
NextCap ==
    \/ ServiceStart \/ ServiceStop
    \/ LoopBegin \/ AcceptEnter \/ RecvBegin \/ RecvRead \/ RecvTail \/ LoopEnd
    \/ Settle
    \/ PeerFlood

SpecCap == Init /\ [][NextCap]_vars

-----------------------------------------------------------------------------
\* Properties

\* The connection is closed: no peer socket, neither connected nor connecting.
Closed == client_sock = NoSock /\ ~is_connected /\ ~is_connecting

RecvPcs == {"recv_loop", "recv_chunk", "recv_extend", "recv_tail"}

\* The last frame send() wrote in this handler.
LastFrame == outbox[Len(outbox)]

\* C1, as the specification states it: in every reachable state at most one
\* of is_listening, is_connecting and is_connected is true.
C1_AtMostOneOfThree ==
    /\ ~(is_listening /\ is_connecting)
    /\ ~(is_listening /\ is_connected)
    /\ ~(is_connecting /\ is_connected)

\* C1: in every reachable state is_connecting and is_connected are not both
\* true; is_listening is not part of the exclusion, a listening server keeps
\* it while its peer is connecting or connected.
C1_ConnectingExcludesConnected == ~(is_connecting /\ is_connected)

\* A listening server whose peer has completed the handshake.
C1_ListeningAndConnected ==
    /\ is_listening /\ server_sock # NoSock
    /\ is_connected /\ ~is_connecting /\ client_sock # NoSock

\* recv() has just read a complete HELLO of Character Creator and dispatched
\* it, and the link was connecting when it did.
HelloReceived ==
    /\ pc = "recv_loop" /\ is_connecting /\ client_sock # NoSock
    /\ pc' = "recv_tail" /\ io' = "ok"
    /\ header' = Msg(HELLO, encode_from_json(HelloCC))
    /\ op_code' = HELLO

\* The remote fields hold what the HELLO of Character Creator carries.
RemoteIsCC ==
    /\ remote_app = Get(HelloCC, "Application")
    /\ remote_version = Get(HelloCC, "Version")
    /\ remote_path = Get(HelloCC, "Path")
    /\ remote_exe = Get(HelloCC, "Exe")

\* C2, as the specification states it: a HELLO received while connecting
\* leaves the link connected, not connecting, with the remote fields equal
\* to the Application, Version, Path and Exe of the HELLO.
C2_HelloConnects ==
    [][HelloReceived => (is_connected' /\ ~is_connecting' /\ RemoteIsCC')]_vars

\* C2: a HELLO received while connecting sets the remote fields to the
\* Application, Version, Path and Exe of the HELLO and writes the NOTIFY
\* "Connected"; the link is then connected and not connecting when that write
\* succeeded, and closed with lost_connection emitted when it failed.
C2_HelloConnectsOrLoses ==
    [][HelloReceived =>
          /\ RemoteIsCC'
          /\ outbox' # <<>> /\ LastFrame'.op = NOTIFY
          /\ IF LastFrame'.ok
             THEN is_connected' /\ ~is_connecting' /\ client_sock' = client_sock
             ELSE Closed' /\ lost_emits' = lost_emits + 1]_vars

\* The handshake has completed on the HELLO of Character Creator.
C2_Connected ==
    /\ pc = "recv_tail" /\ io = "ok" /\ count = 1
    /\ header = Msg(HELLO, encode_from_json(HelloCC))
    /\ outbox # <<>> /\ LastFrame.op = NOTIFY /\ LastFrame.ok
    /\ is_connected /\ ~is_connecting /\ RemoteIsCC

\* C3, as the specification states it: inside recv(), once a read has
\* returned zero bytes or a select() or read has raised, the link is closed
\* (both flags false, client_sock released) and lost_connection was emitted.
C3_ReadFailureCloses ==
    (/\ pc \in RecvPcs \cup {"sequence", "done"}
     /\ \/ io \in {"sel_err", "hdr_err", "chunk_err"}
        \/ (io = "ok" /\ header.wire = "eof")
        \/ (io = "ok" /\ pc = "recv_extend" /\ chunk = ZeroChunk))
    => (Closed /\ lost_emits >= 1)

\* C4, as the specification states it: every call of recv() terminates,
\* whatever the socket holds.
C4_RecvTerminates == (pc \in RecvPcs) ~> (pc \notin RecvPcs)

\* recv() was called with more than MAX_RECEIVE complete messages queued, none
\* of them a NOTIFY, and has returned.
CapCase ==
    /\ pc = "sequence"
    /\ Len(inq0) > MAX_RECEIVE
    /\ \A i \in DOMAIN inq0 : inq0[i].wire = "full" /\ inq0[i].op # NOTIFY

\* What is queued is what was queued behind the first MAX_RECEIVE messages.
RestQueued == inq = SubSeq(inq0, MAX_RECEIVE + 1, Len(inq0))

\* C5, as the specification states it: with more than MAX_RECEIVE complete
\* messages other than NOTIFY queued, one call of recv() dispatches exactly
\* MAX_RECEIVE of them and leaves the rest queued.
C5_ExactlyMaxReceive == CapCase => (count = MAX_RECEIVE /\ RestQueued)

\* C5: with more than MAX_RECEIVE complete messages other than NOTIFY queued,
\* one call of recv() dispatches at most MAX_RECEIVE of them; when the link is
\* still open at its return it has dispatched exactly MAX_RECEIVE, the rest
\* is still queued and is_data is set.  (A STOP or DISCONNECT among them, a
\* failed write or a failed read closes the link before that.)
C5_AtMostMaxReceive ==
    CapCase =>
        /\ count <= MAX_RECEIVE
        /\ has_client_sock(W) => (count = MAX_RECEIVE /\ RestQueued /\ is_data)

\* The cap has stopped recv() with messages left.
C5_Capped ==
    /\ CapCase /\ has_client_sock(W)
    /\ count = MAX_RECEIVE /\ inq # <<>> /\ Len(inq) = Len(inq0) - MAX_RECEIVE

\* C6: recv() does not read another message after it has dispatched a
\* NOTIFY: the loop is never at its head with NOTIFY as the opcode it last
\* dispatched.
C6_NotifyEndsRecv == (pc = "recv_loop") => (op_code # NOTIFY)

\* recv() has returned after a NOTIFY with a message still queued and the cap
\* not reached.
C6_ReturnedAfterNotify ==
    /\ pc = "sequence" /\ op_code = NOTIFY /\ io = "ok"
    /\ count < MAX_RECEIVE /\ inq # <<>> /\ has_client_sock(W) /\ is_data

\* C7, as the specification states it: at most one peer socket is open at
\* any time (accept() over an existing peer socket closes the existing one
\* before it installs the new one).
C7_OnePeerSocketOpen == Cardinality(os_open) <= 1

\* C8: every frame send() writes carries the length of its payload in its
\* header and the payload whole; after a write that failed the link is closed
\* and lost_connection was emitted, and where the handler is one that only
\* sends (STOP, DISCONNECT) no exception has left it.
C8_SendWritesOrLoses ==
    /\ \A i \in DOMAIN outbox :
           /\ outbox[i].length = ByteLen(outbox[i].body)
           /\ outbox[i].sock # NoSock
    /\ (\E i \in DOMAIN outbox : ~outbox[i].ok) =>
           /\ Closed /\ lost_emits >= 1
           /\ LastFrame.op \in {STOP, DISCONNECT} => exc = NoExc

\* A write of a frame with a payload has failed.
C8_WriteFailed ==
    /\ outbox # <<>> /\ ~LastFrame.ok /\ LastFrame.length > 0
    /\ Closed /\ lost_emits >= 1 /\ exc = NoExc

\* The exceptions a handler of parse() raises on a payload it cannot use.
HandlerErrors == {"JSONDecodeError", "KeyError", "AttributeError"}

\* C9, as the specification states it: an error inside a handler does not
\* leave parse(); the tick goes on and the link stays open.
C9_HandlerErrorContained == exc \notin HandlerErrors

\* recv() has just read a complete message whose opcode parse() has no
\* branch for, and dispatched it.
UnhandledReceived ==
    /\ pc = "recv_loop" /\ pc' = "recv_tail" /\ io' = "ok"
    /\ header'.wire = "full" /\ header'.op \notin HandledOps
    /\ op_code' = header'.op

MessageRead ==
    /\ pc = "recv_loop" /\ pc' \in {"recv_tail", "done"}
    /\ io' = "ok" /\ header'.wire = "full" /\ op_code' = header'.op

\* recv() has just read fewer than the 8 bytes of a header.
ShortRead ==
    /\ pc = "recv_loop" /\ pc' = "recv_tail"
    /\ io' = "ok" /\ header'.wire = "short"

\* C11: for every complete message read, parse() resets the keepalive
\* countdown to KEEPALIVE_TIMEOUT_S exactly once, whether the handler returns,
\* raises or closes the connection (the countdown then holds that value
\* unless the handler closed the connection); a header of fewer than 8
\* bytes resets nothing.
C11_ResetOncePerMessage ==
    [][/\ MessageRead =>
              /\ resets' = resets + 1
              /\ keepalive_timer' = KEEPALIVE_TIMEOUT_S \/ Closed'
       /\ ShortRead =>
              /\ resets' = resets
              /\ keepalive_timer' = keepalive_timer]_vars

\* A STOP was read and its handler has closed the connection: the countdown
\* was reset once on the way.
C11_ResetThenClosed ==
    /\ pc = "recv_tail" /\ io = "ok" /\ op_code = STOP /\ count = 1
    /\ resets = 1 /\ Closed /\ keepalive_timer = HANDSHAKE_TIMEOUT_S

\* A tick starts on a link that holds a peer socket, with the keepalive
\* switch on, and finds that the whole of the countdown has elapsed with no
\* message received.
TimeoutElapsed ==
    /\ pc = "idle" /\ pc' # "idle" /\ timer /\ registered /\ use_keepalive
    /\ has_client_sock(W) /\ keepalive_timer > 0
    /\ delta_time' >= keepalive_timer

\* C12, as the specification states it: with the keepalive switch on, a link
\* that holds a peer socket (connecting or connected) and receives nothing
\* for the timeout is force-closed by the tick that finds the timeout
\* elapsed: the peer socket is released, is_connecting and is_connected are
\* cleared and the timer is stopped.
C12_StaleLinkForceClosed ==
    [][TimeoutElapsed => (Closed' /\ ~timer' /\ ~registered')]_vars

\* service_disconnect() has just run on a link with a peer, called by the
\* operator or by parse() on a DISCONNECT received, and its DISCONNECT was
\* written.
DisconnectHandled ==
    /\ has_client_sock(W)
    /\ outbox' # outbox /\ outbox' # <<>>
    /\ LastFrame'.op = DISCONNECT /\ LastFrame'.ok

\* C13, as the specification states it: handling DISCONNECT closes the peer
\* socket only: the listening socket and is_listening are as they were, and
\* a server that was listening accepts a new peer on a following tick (the
\* tick is still registered to run).
C13_DisconnectKeepsServer ==
    [][DisconnectHandled =>
          /\ Closed'
          /\ server_sock' = server_sock /\ is_listening' = is_listening
          /\ (is_listening /\ server_sock # NoSock) => (timer' /\ registered')]_vars

\* service_stop() has just run: called by the operator, by parse() on a STOP
\* received, or by loop() on a countdown that ran out.
StopHandled ==
    \/ pc = "idle" /\ handler' = "service_stop"
    \/ MessageRead /\ op_code' = STOP
    \/ pc = "idle" /\ handler' = "loop" /\ pc' = "done" /\ timer

\* C14: service_stop writes STOP on the peer socket while the link still
\* holds it (when it holds one), and leaves the service shut down:
\* is_listening, is_connecting and is_connected false, server_sock and
\* client_sock None, the timer stopped.
C14_StopShutsDown ==
    [][StopHandled =>
          /\ Closed' /\ ~is_listening' /\ server_sock' = NoSock
          /\ ~timer' /\ ~registered'
          /\ has_client_sock(W) =>
                 /\ Len(outbox') = Len(outbox) + 1
                 /\ LastFrame'.op = STOP /\ LastFrame'.sock = client_sock]_vars

\* The operator has stopped a service that had a peer: the STOP was written
\* on the peer socket and everything is shut down.
C14_StoppedWithPeer ==
    /\ handler = "service_stop" /\ pc = "done"
    /\ Len(outbox) = 1 /\ LastFrame.op = STOP /\ LastFrame.ok
    /\ LastFrame.sock # NoSock
    /\ Closed /\ ~is_listening /\ server_sock = NoSock /\ ~timer /\ ~registered

\* C15, as the specification states it: on every transition to Closed (a
\* STOP, a DISCONNECT, the keepalive expiry, a socket error) the registry is
\* cleared: LINK_DATA.actors is empty and sequence_actors is None.
C15_ClosedClearsRegistry ==
    [][(~Closed /\ Closed') =>
          (actors' = <<>> /\ sequence_actors' = NoList)]_vars

\* C16, as the specification states it: when the link closes while a
\* sequence session is open, the session is discarded: is_sequence is false,
\* no callback is connected to the sequence signal, sequence_actors is None
\* and the cache of every actor is cleared.
C16_CloseDiscardsSession ==
    [][(is_sequence /\ ~Closed /\ Closed') =>
          /\ ~is_sequence' /\ callbacks' = <<>>
          /\ sequence_actors' = NoList
          /\ \A a \in Characters : cache'[a].none]_vars

\* A sequence session has just been opened: receive_sequence has run on a
\* SEQUENCE read, or send_sequence has connected its callback.
SequenceReceived == MessageRead /\ op_code' = SEQUENCE /\ exc' = NoExc

SessionOpened ==
    \/ SequenceReceived
    \/ /\ pc = "idle" /\ handler' = "send_sequence"
       /\ is_sequence' /\ callbacks' # callbacks

\* C17, as the specification states it: a session is opened only while no
\* session is active; a SEQUENCE received while a sequence is being sent
\* leaves the actor list and the send callback of that sequence in place.
C17_OneSessionAtATime ==
    [][/\ SessionOpened => ~is_sequence
       /\ (SequenceReceived /\ callbacks # <<>>) =>
              (callbacks' = callbacks /\ sequence_actors' = sequence_actors)]_vars

\* C18, as the specification states it: the sequence messages written after
\* send_sequence are, in this order, SEQUENCE, TEMPLATE, one SEQUENCE_FRAME
\* for each frame from the start frame to the end frame, ascending, none
\* skipped and none repeated, then one SEQUENCE_END and no SEQUENCE_FRAME
\* after it.
C18_SequenceInOrder == InOrder(seq_log)

\* A sequence is being sent on an open link.
Streaming == is_sequence /\ callbacks # <<>> /\ ~Closed

\* The session has ended.
SessionEnded == ~is_sequence /\ callbacks = <<>> /\ sequence_actors = NoList

\* C19, as the specification states it: a sequence that is being sent on a
\* link that stays open finishes: the session ends (SEQUENCE_END sent,
\* is_sequence false, sequence_actors None, the callback disconnected),
\* unless the link closes first.
C19_SequenceFinishes == Streaming ~> (SessionEnded \/ Closed)

\* recv() has just read a SEQUENCE_FRAME that carries a pose record.
FrameRead ==
    /\ MessageRead /\ op_code' = SEQUENCE_FRAME
    /\ header'.data.fmt = "pose"

\* The frame and the actor entries of the pose record just read.
FrameOf(data) == Get(data.doc, "frame")
EntriesOf(data) == Get(data.doc, "actors")

\* Every actor the record names has the cache of a session whose frames
\* include the frame of the record, and has a name for every expression and
\* viseme curve of that cache.
InSession(c, data) ==
    \A i \in DOMAIN EntriesOf(data) :
        LET a == EntriesOf(data)[i].link_id
        IN  /\ a \in Characters /\ ~c[a].none
            /\ c[a].start <= FrameOf(data) /\ FrameOf(data) <= c[a].end
            /\ Len(template[a].expressions) >= Len(c[a].expr)
            /\ Len(template[a].visemes) >= Len(c[a].vis)

\* A curve with the pair of slot k (counted from 0) set to (frame, value).
WithSlot(curve, k, frame, value) ==
    [i \in DOMAIN curve |->
        IF i = 2 * k + 1 THEN frame
        ELSE IF i = 2 * k + 2 THEN value
        ELSE curve[i]]

\* The cache of actor a after the record: slot (F - S) of each channel holds
\* the frame and the sample of the record, and nothing else has changed.
CacheAfter(c, a, data) ==
    IF \E i \in DOMAIN EntriesOf(data) : EntriesOf(data)[i].link_id = a
    THEN LET e == CHOOSE e \in { EntriesOf(data)[i] : i \in DOMAIN EntriesOf(data) } :
                      e.link_id = a
             k == FrameOf(data) - c[a].start
         IN  [c[a] EXCEPT
                 !.rot = WithSlot(@, k, FrameOf(data), e.sample),
                 !.expr = [i \in DOMAIN @ |-> WithSlot(@[i], k, FrameOf(data), e.sample)],
                 !.vis = [i \in DOMAIN @ |-> WithSlot(@[i], k, FrameOf(data), e.sample)]]
    ELSE c[a]

\* The frames of the session of actor a.
SessionFrames(a) ==
    IF cache[a].none THEN {} ELSE { f \in Frames : cache[a].start <= f /\ f <= cache[a].end }

\* The cache of actor a after a frame is stored in it.
Stored(w, a, f, v) ==
    store_bone_cache_keyframes(
        store_shape_key_cache_keyframes(w, a, f,
                                        [i \in DOMAIN w.cache[a].expr |-> v],
                                        [i \in DOMAIN w.cache[a].vis |-> v]),
        a, f, v)

\* A session has just been opened, or a frame of one has just been handled.
SessionStep == pc = "recv_tail" /\ op_code \in { SEQUENCE, SEQUENCE_FRAME }

\* After such a step, two frames of the session stored in either order leave
\* the same cache, and a frame stored again leaves what storing it once
\* leaves.
OrderFree ==
    SessionStep =>
        \A a \in Characters : \A w \in { Fresh(W) } :
            \A f \in SessionFrames(a), v \in Samples :
                \A wf \in { Stored(w, a, f, v) } :
                    /\ wf.exc = NoExc
                    /\ \A g \in SessionFrames(a), u \in Samples :
                           \A wg \in { Stored(w, a, g, u) } :
                               IF f # g
                               THEN Stored(wf, a, g, u).cache = Stored(wg, a, f, v).cache
                               ELSE Stored(wf, a, g, u).cache = wg.cache

EndHandled == MessageRead /\ op_code' = SEQUENCE_END /\ exc' = NoExc

\* The actors of the open session.
SessionActors ==
    IF sequence_actors = NoList THEN {}
    ELSE { sequence_actors[i] : i \in DOMAIN sequence_actors }

\* A session is open whose actors all have a cache, and a SEQUENCE_FRAME was
\* handled for every frame of its range.
AllFramesReceived ==
    /\ is_sequence /\ SessionActors # {}
    /\ \A a \in SessionActors :
           ~cache[a].none /\ SessionFrames(a) # {} /\ SessionFrames(a) \subseteq received

\* A curve of n samples, one for each frame from start on, none of them the
\* placeholder of the cache preparation.
Complete(curve, start, n) ==
    /\ Len(curve) = 2 * n
    /\ \A k \in 0..(n - 1) :
           curve[2 * k + 1] = start + k /\ curve[2 * k + 2] \in Samples

\* C21, as the specification states it: when every frame of the range of a
\* session was received and SEQUENCE_END follows, the actions of each actor
\* of the session hold a curve for the bones and one for every expression
\* and every viseme of the actor, each of exactly end - start + 1 samples,
\* one per frame, none a placeholder.
C21_SequenceComplete ==
    [][(EndHandled /\ AllFramesReceived) =>
          \A a \in SessionActors :
              LET n == cache[a].end - cache[a].start + 1
                  start == cache[a].start
              IN  /\ Complete(action'[a].rot, start, n)
                  /\ Len(action'[a].expr) = Len(template[a].expressions)
                  /\ Len(action'[a].vis) = Len(template[a].visemes)
                  /\ \A i \in DOMAIN action'[a].expr :
                         Complete(action'[a].expr[i], start, n)
                  /\ \A i \in DOMAIN action'[a].vis :
                         Complete(action'[a].vis[i], start, n)]_vars

\* recv() has just read a SEQUENCE_END, with the payload a peer gives it or
\* with none, as send_sequence_end writes it, while a session is open.
EndRead ==
    /\ MessageRead /\ op_code' = SEQUENCE_END
    /\ is_sequence /\ sequence_actors # NoList

\* The curves of a cache, as write_sequence_actions leaves them in the actions.
Materialized(c) == [rot |-> c.rot, expr |-> c.expr, vis |-> c.vis]

\* C22, as the specification states it: a SEQUENCE_END received for an open
\* session, the one this program sends included, materializes the cache of
\* each actor of the session once and discards the session: is_sequence is
\* false, sequence_actors is None and the cache of each actor is cleared.
C22_EndDiscardsSession ==
    [][EndRead =>
          /\ ~is_sequence' /\ sequence_actors' = NoList
          /\ \A a \in SessionActors :
                 /\ cache'[a].none
                 /\ ~cache[a].none => action'[a] = Materialized(cache[a])]_vars

-----------------------------------------------------------------------------
\* C23

\* loop() reaches its last line and returns a delay.
TickReturns == pc = "sequence" /\ pc' = "done" /\ exc' = NoExc

\* At the end of the tick the peer socket is held and select() would report it
\* readable.
MoreData == client_sock' # NoSock /\ (inq' # <<>> \/ peer_closed')

\* At the end of the tick a callback is connected to the sequence signal: a
\* frame of an outbound sequence is still to be sent.
SendPending == callbacks' # <<>>

\* C23, as the specification states it: loop() returns 0 when at the end of the
\* tick more data is readable on the peer socket or an outbound sequence send
\* is pending, and TIMER_INTERVAL in every other case, a sequence that is only
\* being received included.
C23_DelayAsStated ==
    [][TickReturns =>
         delay' = (IF MoreData \/ SendPending THEN 0 ELSE TIMER_INTERVAL)]_vars

\* C23: loop() returns 0 exactly when is_data or is_sequence is set at the
\* end of the tick, and TIMER_INTERVAL otherwise; is_data is set whenever the
\* peer socket is held and still readable.
C23_DelayFollowsFlags ==
    [][TickReturns =>
         /\ delay' = (IF is_data' \/ is_sequence' THEN 0 ELSE TIMER_INTERVAL)
         /\ MoreData => is_data']_vars

\* loop() has returned 0 in a tick that left nothing to read and nothing to
\* send: a sequence is being received.
C23_ZeroWhileReceiving ==
    /\ pc = "done" /\ handler = "loop" /\ delay = 0
    /\ ~is_data /\ callbacks = <<>> /\ is_sequence /\ sequence_actors # NoList

-----------------------------------------------------------------------------
\* C24

\* try_start_client is called with no peer socket held: it opens a new one.
ClientOpens ==
    pc = "idle" /\ client_sock = NoSock /\ handler' = "try_start_client"

\* The connection is in state Connecting.
Connecting == client_sock # NoSock /\ is_connecting /\ ~is_connected

\* HELLO is the first frame written on the socket now held.
HelloFirst ==
    /\ outbox # <<>>
    /\ outbox[1].op = HELLO /\ outbox[1].sock = client_sock /\ outbox[1].ok

\* C24: a try_start_client that opens a new socket and returns True leaves the
\* connection Connecting with HELLO the first message written on the socket;
\* one whose connect fails returns False with no peer socket and both flags
\* false.
C24_ClientStart ==
    [][ClientOpens =>
         /\ ret' = "True" => Connecting' /\ HelloFirst'
         /\ ret' = "False" => Closed']_vars

-----------------------------------------------------------------------------
\* C25

\* start_server has returned without a listening socket: bind or listen failed.
BindFailed == pc = "done" /\ handler = "start_server" /\ server_sock = NoSock

\* service_start is called while the service holds no socket.
StartFromIdle ==
    /\ pc = "idle" /\ handler' = "service_start"
    /\ client_sock = NoSock /\ server_sock = NoSock

\* service_start did its work: the timer runs, or a connection was made and
\* lost again in the write of HELLO.
Started == timer \/ outbox # <<>>

\* C25: a start_server that fails to bind or listen leaves the service Idle
\* (is_listening false, server_sock None, no exception), and a service_start
\* called while no socket is held starts the service.
C25_BindFailureIdle ==
    /\ [](BindFailed => ~is_listening /\ exc = NoExc)
    /\ [][StartFromIdle => Started']_vars

-----------------------------------------------------------------------------
\* C26

\* The service is Idle: no socket, no flag, the timer stopped and dropped.
Idle ==
    /\ client_sock = NoSock /\ server_sock = NoSock
    /\ ~is_listening /\ ~is_connecting /\ ~is_connected
    /\ ~timer /\ ~registered

\* service_start is called on the Idle service.
RestartFromIdle == pc = "idle" /\ Idle /\ handler' = "service_start"

\* C26: a handler in which service_lost() was called leaves the service Idle
\* (no peer and no server socket, is_listening, is_connecting and is_connected
\* false, the timer stopped), and a service_start on the Idle service is no
\* no-op: it restarts the timer and attempts a connection, so that afterwards
\* the timer runs with the link closed (connect failed) or Connecting with
\* HELLO written, or the new connection was lost in its turn.
C26_LostIsRecoverable ==
    /\ [](pc = "done" /\ lost_emits > 0 => Idle)
    /\ [][RestartFromIdle =>
            \/ timer' /\ registered' /\ Closed' /\ outbox' = <<>>
            \/ timer' /\ registered' /\ Connecting' /\ HelloFirst'
            \/ lost_emits' > 0 /\ Idle' /\ outbox' # <<>>]_vars

\* A tick in which the connection was lost has ended, the service Idle.
C26_LostInTick ==
    /\ pc = "done" /\ handler = "loop" /\ lost_emits > 0 /\ Idle

-----------------------------------------------------------------------------
\* C27

\* recv() has passed a message to parse(), and its handler has returned.
Dispatched ==
    /\ pc \in {"recv_loop", "recv_extend"} /\ pc' = "recv_tail"
    /\ count' = count + 1

\* The reads of this pass were complete: recv(8) returned the 8 bytes of a
\* header and the payload it announces was read in full.
CompleteRead == io' = "ok" /\ header'.wire = "full"

\* A pass of `while r` ends in which a read failed, or the stream had ended
\* before the header or the payload was complete.
EndsIncomplete ==
    /\ pc = "recv_loop" /\ pc' \in {"recv_tail", "sequence", "done"}
    /\ io' # "ok" \/ (peer_closed /\ header'.wire # "full")

\* C27: a message is dispatched only with the payload its header announces,
\* read in full; a pass in which the stream ends or a read fails before the
\* header or the payload is complete dispatches nothing and ends in
\* service_lost().
C27_OnlyCompleteDispatched ==
    [][/\ Dispatched => CompleteRead
       /\ EndsIncomplete => count' = count /\ lost_emits' > 0]_vars

-----------------------------------------------------------------------------
\* C28

\* The step calls recv() on self.client_sock: the read of a header or of a
\* chunk of a payload.
ReadStep == pc \in {"recv_loop", "recv_chunk"}

\* The step calls select() on self.client_sockets: recv() found the peer
\* socket held at its head or at the tail of a pass.
SelectStep == pc \in {"recv", "recv_tail"} /\ has_client_sock(W)

\* The frames the step writes.
Written == { outbox'[i] : i \in (DOMAIN outbox') \ (DOMAIN outbox) }

\* C28: once stop_client() has released the peer socket inside a handler, no
\* later step of the handler reads from it, selects on it or writes on it:
\* what a step reads from or selects on is not a released socket, every frame
\* is written on a socket that is held and was not released, and when the
\* handler has returned the service holds no socket it released, so that no
\* following tick finds it either.
C28_NoUseAfterRelease ==
    /\ [][/\ ReadStep \/ SelectStep => client_sock \notin released
          /\ \A f \in Written : f.sock # NoSock /\ f.sock \notin released]_vars
    /\ [](pc = "done" => client_sock \notin released)

\* A tick in which the peer socket was released inside recv() went on to a
\* further pass of the loop.
C28_PassAfterRelease ==
    /\ pc \in {"recv_loop", "recv_chunk"} /\ released # {}
    /\ client_sock = NoSock

-----------------------------------------------------------------------------
\* C29

\* recv() has just read a TEMPLATE that lists a stranger.
StrangerTemplateRead ==
    /\ MessageRead /\ op_code' = TEMPLATE
    /\ \E i \in DOMAIN Get(header'.data.doc, "actors") :
           Get(Get(header'.data.doc, "actors")[i], "link_id") \notin Characters

\* The template the document gives actor a.
TemplateOf(data, a) ==
    LET e == CHOOSE e \in { Get(data.doc, "actors")[i] :
                              i \in DOMAIN Get(data.doc, "actors") } :
                 Get(e, "link_id") = a
    IN  [bones |-> Get(e, "bones"), expressions |-> Get(e, "expressions"),
         visemes |-> Get(e, "visemes"), morphs |-> Get(e, "morphs")]

\* recv() has just read a SEQUENCE_FRAME that lists a stranger, while every
\* character it lists has the cache of a session that includes its frame.
StrangerFrameRead ==
    /\ FrameRead
    /\ \E i \in DOMAIN EntriesOf(header'.data) :
           EntriesOf(header'.data)[i].link_id \notin Characters
    /\ \A i \in DOMAIN EntriesOf(header'.data) :
           LET a == EntriesOf(header'.data)[i].link_id
           IN  a \in Characters =>
                  /\ ~cache[a].none
                  /\ cache[a].start <= FrameOf(header'.data)
                  /\ FrameOf(header'.data) <= cache[a].end
                  /\ Len(template[a].expressions) >= Len(cache[a].expr)
                  /\ Len(template[a].visemes) >= Len(cache[a].vis)

\* C29, as the specification states it: a TEMPLATE or a pose frame that lists
\* an actor with no registry entry and no character of the scene raises no
\* error, and the data of every other actor it lists is applied: the
\* template is set, the frame is stored in the cache.
C29_StrangerSkipped ==
    [][/\ StrangerTemplateRead =>
             /\ exc' = NoExc
             /\ \A a \in Characters : template'[a] = TemplateOf(header'.data, a)
       /\ StrangerFrameRead =>
             /\ exc' = NoExc
             /\ \A a \in Characters :
                    cache'[a] = CacheAfter(cache, a, header'.data)]_vars

-----------------------------------------------------------------------------
\* C30

\* set_template applied to actor a of w.
Applied(w, a, t) ==
    set_template(w, a, t.bones, t.expressions, t.visemes, t.morphs)

\* recv() has just read a TEMPLATE that is the message it read and handled in
\* the pass before.
TemplateRepeated ==
    /\ MessageRead /\ op_code' = TEMPLATE
    /\ count >= 1 /\ op_code = TEMPLATE /\ exc = NoExc /\ header' = header

\* C30: set_template is idempotent.  Applied to an actor a second time with
\* the same lists it leaves every field of the state as the first application
\* left it, and a TEMPLATE handled a second time leaves the templates, the
\* registry, the caches and the actions as they were after the first.
C30_SetTemplateIdempotent ==
    /\ [](pc = "idle" =>
            \A a \in Characters, t \in Templates :
                \A once \in { Applied(W, a, t) } : Applied(once, a, t) = once)
    /\ [][TemplateRepeated =>
            /\ exc' = NoExc
            /\ template' = template /\ actors' = actors
            /\ sequence_actors' = sequence_actors
            /\ cache' = cache /\ action' = action]_vars

\* The template of the face has been handled a second time.
C30_TemplateTwice ==
    /\ pc = "recv_tail" /\ op_code = TEMPLATE /\ count = 2 /\ exc = NoExc
    /\ Len(inq0) = 2 /\ inq0[1] = inq0[2] /\ header = inq0[2]
    /\ \E a \in Characters : template[a] = FaceTemplate

-----------------------------------------------------------------------------
\* C31

\* No two entries of LINK_DATA.actors have the same link id.
UniqueKeys ==
    \A i \in DOMAIN registry, j \in DOMAIN registry :
        registry[i].link_id = registry[j].link_id => i = j

\* get_actor has just added an entry.
LookupAdds ==
    pc = "idle" /\ handler' = "get_actor" /\ Len(registry') > Len(registry)

\* C31, as the specification states it: after any sequence of get_actor,
\* add_actor, LinkActor.update and reset no two entries of LINK_DATA.actors
\* have the same link id, and get_actor adds an entry only for a link id that
\* no entry has.
C31_RegistryKeysUnique ==
    /\ []UniqueKeys
    /\ [][LookupAdds =>
            \A i \in DOMAIN registry :
                registry[i].link_id # registry'[Len(registry')].link_id]_vars

-----------------------------------------------------------------------------
\* C32

\* C32, as the specification states it: for every string, the empty string
\* and strings of characters of several bytes included, unpack_string of
\* pack_string(s) at offset 0 returns s and the length of the packed buffer.
C32_StringRoundTrip ==
    codec.stage = "unpacked" =>
        /\ codec.exc = NoExc
        /\ codec.out = codec.str
        /\ codec.offset = Len(codec.buffer)

-----------------------------------------------------------------------------
\* C33

\* A buffer was unpacked that holds its length prefix and fewer bytes after
\* it than the prefix announces.
TruncatedUnpacked ==
    /\ codec.stage = "unpacked_cut" /\ Len(codec.buffer) >= 4
    /\ Len(codec.buffer) - 4 < UnpackU32(codec.buffer, 0).n

\* C33, as the specification states it: unpack_string of a buffer with fewer
\* bytes after the prefix than the prefix announces fails with an error; it
\* returns no shortened string and no offset beyond the end of the buffer.
C33_TruncatedStringFails ==
    TruncatedUnpacked => codec.exc # NoExc /\ codec.offset <= Len(codec.buffer)

-----------------------------------------------------------------------------
\* C34

\* The record under way was decoded and holds an actor.
ActorDecoded == pose.stage = "decoded" /\ pose.actors # <<>>

\* What the decoder read is what the record was made of: the frame, the
\* strings, the translation of every bone and every weight.
ReadBack ==
    /\ pose.decoded.exc = NoExc
    /\ pose.decoded.offset = Len(pose.data)
    /\ pose.decoded.frame = pose.frame
    /\ pose.actors # <<>> =>
           \E actor \in { pose.actors[1] } :
               /\ pose.decoded.names = << actor.name, actor.link_id >>
               /\ pose.decoded.bones
                      = [j \in 1..actor.tmpl.bones |-> [loc |-> actor.t, whole |-> TRUE]]

\* C34, as the specification states it: a pose record written by
\* encode_pose_data is read back by decode_pose_data with the same values in
\* the same fields, on every path of the encoder.
C34_PoseRoundTrip ==
    pose.stage = "decoded" /\ pose.by = "encode_pose_data" => ReadBack

-----------------------------------------------------------------------------
\* C35

\* The shape key the decoder has set last under the given name, 0 if none.
RECURSIVE ShapeKey(_, _)
ShapeKey(shape_keys, name) ==
    IF shape_keys = <<>> THEN 0
    ELSE IF shape_keys[Len(shape_keys)].name = name
    THEN shape_keys[Len(shape_keys)].value
    ELSE ShapeKey(SubSeq(shape_keys, 1, Len(shape_keys) - 1), name)

\* C35, as the specification states it: after a pose record in the layout of
\* the decoder is decoded, the i-th viseme weight of the actor is the value
\* of the shape key of the i-th viseme, and the i-th expression weight is the
\* value of the shape key of the i-th expression, whatever the template.
C35_WeightsUnderTheirNames ==
    ActorDecoded /\ pose.by = "peer" =>
        \E actor \in { pose.actors[1] } :
            /\ pose.decoded.exc = NoExc
            /\ \A i \in 1..actor.tmpl.expressions :
                   ShapeKey(pose.decoded.shape_keys, ExpressionName(i))
                       = actor.expression_weights[i]
            /\ \A i \in 1..actor.tmpl.visemes :
                   ShapeKey(pose.decoded.shape_keys, VisemeName(i))
                       = actor.viseme_weights[i]

-----------------------------------------------------------------------------
\* C36

\* The document of a HELLO has the four fields the HELLO branch of parse
\* reads.
HelloComplete(data) ==
    /\ data.fmt = "json"
    /\ \A i \in DOMAIN HelloFields : HasKey(data.doc, HelloFields[i][1])

\* C36, as the specification states it: every HELLO written by send_hello
\* carries Application, Version, Path and Exe, and the HELLO branch of parse,
\* run on such a HELLO by a peer that is this program, ends without an error
\* and with the remote identity filled in.
C36_HelloCarriesFields ==
    \A i \in DOMAIN outbox :
        outbox[i].op = HELLO =>
            /\ HelloComplete(outbox[i].body)
            /\ \E p \in { parse_hello(W, outbox[i].body, TRUE) } :
                   /\ p.exc = NoExc
                   /\ \A k \in DOMAIN HelloFields :
                          p[HelloFields[k][2]] = Get(outbox[i].body.doc, HelloFields[k][1])

-----------------------------------------------------------------------------
\* C37

\* The SEQUENCE_FRAME messages among the frames written.
RECURSIVE PoseFramesOf(_)
PoseFramesOf(frames) ==
    IF frames = <<>> THEN <<>>
    ELSE IF Head(frames).op = SEQUENCE_FRAME
    THEN << Get(Head(frames).body.doc, "frame") >> \o PoseFramesOf(Tail(frames))
    ELSE PoseFramesOf(Tail(frames))

\* The sequence step of a tick, taken while a sequence is being sent.
SequenceStep == pc = "sequence" /\ pc' # "sequence" /\ Streaming

\* C37, as the specification states it: while a sequence is being sent, the
\* sequence step of each tick writes exactly one SEQUENCE_FRAME, for the
\* current frame of the session, and then moves the current frame on by one,
\* never beyond the end frame.
C37_OneFramePerTick ==
    [][SequenceStep =>
         /\ PoseFramesOf(SubSeq(outbox', Len(outbox) + 1, Len(outbox')))
                = << sequence_current_frame >>
         /\ sequence_current_frame'
                = IF sequence_current_frame < frame_end
                  THEN sequence_current_frame + 1 ELSE sequence_current_frame]_vars

-----------------------------------------------------------------------------
\* C38

\* The place of each position of loop() in the order of a tick: the
\* countdowns are the step that leaves "idle", then accept(), recv() and the
\* sequence step.
TickOrder(p) ==
    CASE p = "idle" -> 1
      [] p \in {"accept", "accept_loop", "accept_install"} -> 2
      [] p \in {"recv", "recv_loop", "recv_chunk", "recv_extend", "recv_tail"} -> 3
      [] p = "sequence" -> 4
      [] OTHER -> 5

\* accept() takes a pending connection.
ConnectionTaken == pc = "accept_loop" /\ pc' = "accept_install"

\* C38, as the specification states it: a tick goes through the countdowns,
\* accept(), recv() and the sequence step in this order, and accept() takes
\* at most one pending connection in a tick: when it takes one, it has taken
\* none before in the same call.
C38_TickOrderOneAccept ==
    [][/\ handler' = "loop" /\ pc # "done" => TickOrder(pc') >= TickOrder(pc)
       /\ ConnectionTaken => sock = NoSock]_vars

-----------------------------------------------------------------------------
\* C39

\* C39: in every reachable state is_connected and is_connecting are not both
\* true, a link that is connected or connecting has a peer socket, and a link
\* without a peer socket is neither.
C39_FlagsFollowSocket ==
    /\ ~(is_connected /\ is_connecting)
    /\ (is_connected \/ is_connecting) => client_sock # NoSock
    /\ client_sock = NoSock => ~is_connected /\ ~is_connecting

\* A tick has lost the link: stop_client() has released the peer socket, and
\* the link is neither connected nor connecting.
C39_SocketReleased ==
    /\ handler = "loop" /\ lost_emits >= 1 /\ released # {}
    /\ client_sock = NoSock /\ ~is_connected /\ ~is_connecting

-----------------------------------------------------------------------------
\* C40

\* recv() has just read a complete HELLO and dispatched it.
HelloDispatched ==
    /\ pc = "recv_loop" /\ client_sock # NoSock
    /\ pc' = "recv_tail" /\ io' = "ok"
    /\ header'.wire = "full" /\ op_code' = HELLO

\* The texts of the NOTIFY messages among the frames written.
RECURSIVE NotifiesOf(_)
NotifiesOf(frames) ==
    IF frames = <<>> THEN <<>>
    ELSE IF Head(frames).op = NOTIFY
    THEN << Head(frames).body.doc >> \o NotifiesOf(Tail(frames))
    ELSE NotifiesOf(Tail(frames))

\* C40: a HELLO dispatched while the link is connected leaves the two flags
\* as they are, emits no connected signal and writes nothing; a HELLO
\* dispatched while the link is connecting emits the connected signal once
\* and writes exactly one frame, the NOTIFY "Connected".
C40_HandshakeOnce ==
    [][/\ HelloDispatched /\ is_connected =>
              /\ UNCHANGED << is_connected, is_connecting >>
              /\ connected_emits' = connected_emits
              /\ outbox' = outbox
       /\ HelloDispatched /\ is_connecting =>
              /\ connected_emits' = connected_emits + 1
              /\ Len(outbox') = Len(outbox) + 1
              /\ NotifiesOf(SubSeq(outbox', Len(outbox) + 1, Len(outbox')))
                     = << NotifyConnected >>]_vars

\* A HELLO has been dispatched on a link that was connected before this
\* tick: the flags are as they were, and the handler has emitted no connected
\* signal and written nothing.
C40_SecondHello ==
    /\ pc = "recv_tail" /\ io = "ok" /\ header.wire = "full" /\ op_code = HELLO
    /\ count = 1 /\ exc = NoExc
    /\ is_connected /\ ~is_connecting /\ client_sock # NoSock
    /\ connected_emits = 0 /\ outbox = <<>>

====
